---- MODULE Spec2Model ----
(***************************************************************************)
(* Model of the worker-RPC bridge of the playground (src/src/wasm.js), of  *)
(* the worker script it talks to (wasm.worker.js) and of the validation    *)
(* and query pipeline of src/src/main.js that is built on top of it.       *)
(*                                                                         *)
(* One action is one run-to-completion step of the main thread's event     *)
(* loop (a handler up to its next await, with the microtasks it triggers), *)
(* or one step of the worker.                                              *)
(***************************************************************************)
EXTENDS Integers, Sequences, FiniteSets, TLC

\* ------------------------------------------------------------------ bounds
MaxWorkers == 2      \* Worker objects ever constructed
MaxMsgs == 2         \* sendMessage calls that reach postMessage
MaxEdits == 1        \* editor changes
MaxRetryArg == 1     \* largest maxRetries argument passed to initWasm
MaxApiSends == 1     \* requests posted by direct callers of the facade
MaxInject == 1       \* messages posted by an arbitrary worker (SpecOpen)
MaxBootWorkers == 3  \* Worker objects ever constructed (SpecBoot)
MaxBootRetries == 2  \* largest maxRetries argument passed to initWasm (SpecBoot)
MaxBurst == 2        \* editor changes (SpecDebounce)
MaxTimers == 4       \* setTimeout calls of the debounced handlers (SpecDebounce)
MaxPageArg == 3      \* largest page number passed to goToQueryPage (SpecPage)
MaxTyped == 2        \* document changes the editor's autocomplete handles (SpecDropdown)
MaxDocs == 3         \* editor changes (SpecErrors)
MaxFetchRetries == 3 \* largest maxRetries option passed to fetchWithRetry (SpecFetch)
MaxSymbolCalls == 3  \* invocations of updateSymbols (SpecSymbols)
MaxSegments == 6     \* segments of an account text (SpecColors)
MaxLines == 5        \* lines of the longest source (SpecTooltip)
MaxFormatEdits == 3  \* timers armed by edits and format results (SpecFormat)
MaxLoads == 4        \* calls of loadLazyExample (SpecExamples)
MaxUiTimers == 2     \* setTimeout calls before a blur or an input of the query field (SpecDropdown)

\* -------------------------------------------------------- program constants
WASM_BASE_DELAY == 1000
QUERY_PAGE_SIZE == 100

\* ------------------------------------------------------------------ values
NoWorker == 0        \* worker = null
NoId == -1           \* event.data.id === undefined
Null == "null"       \* JS null
Unknown == "unknown"

Procs == {"A", "B"}  \* concurrent callers of initWasm

Ops == {"validateSource", "format", "query", "bqlCompletions",
        "getCompletions", "getHoverInfo", "getDefinition", "getDocumentSymbols"}

\* actions the worker script's switch knows
WorkerActions == {"validateSource", "format", "query", "bqlCompletions", "version"}

Queries == {"BALANCES", "BAD"}

\* queries of the pagination specification, and the number of rows each
\* yields
PageQueries == {"BAD", "BALANCES", "LIMIT 1", "LIMIT 100", "LIMIT 101", "LIMIT 250"}

RowsOf(src, q) ==
    CASE q = "LIMIT 1" -> 1
      [] q = "LIMIT 100" -> 100
      [] q = "LIMIT 101" -> 101
      [] q = "LIMIT 250" -> 250
      [] OTHER -> src

\* raw error strings a boot can fail with, and the marker substrings each has
RawErrors == {"CompileError: bad magic", "Failed to fetch"}

Markers(e) ==
    CASE e = "CompileError: bad magic" -> {"CompileError"}
      [] e = "failed to instantiate" -> {"instantiate"}
      [] e = "Failed to fetch" -> {"Failed to fetch"}
      [] e = "CompileError after NetworkError" -> {"CompileError", "NetworkError"}
      [] e = "Out of memory" -> {"Out of memory"}
      [] e = "boom" -> {}
      [] e = "check your internet connection" -> {}
      [] e = "Your browser may not support WebAssembly" -> {"not support WebAssembly"}
      [] e = "Your device ran out of memory" -> {"out of memory"}
      [] e = "Please try refreshing the page" -> {}
      [] e = "WASM initialization timed out" -> {}
      [] OTHER -> {}

Includes(e, marker) == marker \in Markers(e)

\* formatWasmError: the user-facing message of a raw error
formatWasmError(error) ==
    IF Includes(error, "Failed to fetch") \/ Includes(error, "NetworkError")
    THEN "check your internet connection"
    ELSE IF Includes(error, "CompileError") \/ Includes(error, "instantiate")
    THEN "Your browser may not support WebAssembly"
    ELSE IF Includes(error, "Out of memory") \/ Includes(error, "OOM")
    THEN "Your device ran out of memory"
    ELSE "Please try refreshing the page"

TimeoutMsg == "WASM initialization timed out"

\* initWasm's test for errors that are not retried
NonRetryable_Never(errorMsg) == FALSE

NonRetryable(errorMsg) ==
    Includes(errorMsg, "CompileError") \/ Includes(errorMsg, "not support WebAssembly")

RECURSIVE Pow2(_)
Pow2(n) == IF n = 0 THEN 1 ELSE 2 * Pow2(n - 1)

\* the backoff delay after failed attempt number `attempt`
BackoffDelay_Constant(baseDelay, attempt) == baseDelay

BackoffDelay(baseDelay, attempt) == baseDelay * Pow2(attempt)

\* ------------------------------------------------------- the engine (pure)
NoResult == [kind |-> "none"]

\* no message handled in this step
NoEvent == [w |-> NoWorker, id |-> NoId, type |-> "none", result |-> NoResult,
            error |-> Null, version |-> Null]

\* the output panel before any validation, and currentQueryResult = null
NoOutput == [text |-> "", src |-> NoId, lines |-> {}]

NoQueryResult == [rows |-> 0, from |-> NoId]

\* goToQueryPage was not called yet
NoNav == [page |-> 0, rendered |-> FALSE, called |-> FALSE]

\* the query output when it shows no table: the initial text, an error
\* message or "No results"
Shown(kind, from) == [kind |-> kind, from |-> from, page |-> 0, first |-> 0, last |-> 0,
                      pages |-> 0, controls |-> FALSE]

\* the errors the engine reports for a source: sources are numbered, the
\* even ones are valid; line 0 stands for an error without a line
ErrorsOf(src) ==
    CASE src % 2 = 0 -> << >>
      [] src = 1 -> <<[line |-> 2, message |-> "unbalanced"],
                      [line |-> 5, message |-> "unknown account"]>>
      [] src = 3 -> <<[line |-> 0, message |-> "no line"],
                      [line |-> 2, message |-> "first"],
                      [line |-> 9, message |-> "beyond"],
                      [line |-> 2, message |-> "second"]>>
      [] OTHER -> <<[line |-> src, message |-> "syntax"]>>

\* the number of lines of a source
LineCount(src) == IF src = 2 THEN 1 ELSE 5

\* validate(source)
EngineValidate(src) ==
    [kind |-> "validation", valid |-> ErrorsOf(src) = << >>,
     lines |-> {ErrorsOf(src)[i].line : i \in DOMAIN ErrorsOf(src)},
     errors |-> ErrorsOf(src), src |-> src]

\* query(source, q)
EngineQuery(src, q) ==
    IF q = "BAD"
    THEN [kind |-> "query", error |-> "parse error", rows |-> 0, src |-> src, q |-> q]
    ELSE [kind |-> "query", error |-> Null, rows |-> RowsOf(src, q), src |-> src, q |-> q]

\* the formatted text of a source: a text of its own, and its own
\* formatted text
Formatted(src) == IF src >= 10 THEN src ELSE src + 10

\* format(source): the formatted text, or the errors of a source that does
\* not parse
EngineFormat(src) ==
    IF ErrorsOf(src) = << >>
    THEN [kind |-> "format", formatted |-> Formatted(src), errors |-> << >>, src |-> src]
    ELSE [kind |-> "format", formatted |-> NoId, errors |-> ErrorsOf(src), src |-> src]

EngineResult(action, src, q) ==
    CASE action = "validateSource" -> EngineValidate(src)
      [] action = "query" -> EngineQuery(src, q)
      [] action = "format" -> EngineFormat(src)
      [] OTHER -> [kind |-> action, src |-> src]

\* the account names of the sources, in document order
AccountNames == <<"Assets:Bank", "Assets:Cash", "Income:Salary">>

\* a Response by its status and the headers fetchWithRetry reads: '' is a
\* header that is not set; the X-RateLimit-Reset header is given by the time
\* in ms from Date.now() to the timestamp it names. An outcome of fetch that
\* is no response has status 0 and names the error
Response(status, retryAfter, remaining, hasReset, resetIn) ==
    [status |-> status, retryAfter |-> retryAfter, remaining |-> remaining,
     hasReset |-> hasReset, resetIn |-> resetIn, error |-> ""]

Rejection(error) ==
    [status |-> 0, retryAfter |-> "", remaining |-> "", hasReset |-> FALSE,
     resetIn |-> 0, error |-> error]

NoResponse == Rejection("")

\* extractAccounts(source): the accounts named by a source; source 0 names
\* three, the odd sources name none
extractAccounts(src) ==
    CASE src = 0 -> {"Assets:Bank", "Assets:Cash", "Income:Salary"}
      [] src % 2 = 1 -> {}
      [] OTHER -> {"Income:Salary"}

\* Array.from(accounts): the elements of the Set in insertion order
ArrayFrom(accounts) == SelectSeq(AccountNames, LAMBDA a : a \in accounts)

\* autocompleteContext = null
NoContext == [tokenStart |-> -1, tokenEnd |-> -1, value |-> ""]

\* the accountAutocomplete object as the module creates it; its dropdown
\* element is created hidden
NoAccountAutocomplete == [hidden |-> TRUE, items |-> << >>, selectedIndex |-> -1,
                          startPos |-> 0, active |-> FALSE]

VARIABLES
    \* wasm.js
    worker, wasmReady, wasmError, wasmVersion, messageId, pendingRequests,
    \* every sendMessage that posted, in order, with the state of its promise
    requests,
    \* Worker objects: constructed so far, not yet terminated, script state
    created, alive, wk,
    \* requests posted to a worker that it has not handled yet
    toWorker,
    \* callers of initWasm
    ip,
    \* what the facade call made in this step returned (null, or a promise still
    \* awaited); Null when the step made none
    callLog,
    \* main.js
    content, liveValidationTimeout, statusTab, output, errorLines, knownAccounts,
    appliedValidation, currentQueryResult, queryOutput,
    \* event.data of the message worker.onmessage handled in this step;
    \* NoEvent when the step handled none
    event,
    \* messages posted by an arbitrary worker so far (SpecOpen only)
    injected,
    \* the timers armed by setTimeout and not yet fired or cleared, and the
    \* last timer ID setTimeout returned
    timers, timerSeq,
    \* query.js: the debounce timer of the query input, the input's text and
    \* the tint of its container
    queryValidationTimeout, queryText, queryTint,
    \* the last call of goToQueryPage: its argument, and whether it rendered
    navLog,
    \* query.js: whether the dropdown of the query input carries the class
    \* 'hidden', and the module's autocomplete state
    autocompleteHidden, autocompleteSelectedIndex, autocompleteItems,
    autocompleteContext,
    \* editor.js: the accountAutocomplete object (hidden: the class of its
    \* dropdown), and the word before the cursor the update listener last saw,
    \* with the number of document changes it has handled
    accountAutocomplete, currentWord,
    \* main.js: the errorMessages map; the callbacks passed to
    \* requestAnimationFrame by highlightErrorLines and not yet run, each by
    \* the arguments it captured; editor.js: the lines of the editor that carry
    \* the class cm-error-line, with their data-error-message
    errorMessages, frames, marks,
    \* utils.js: the call of fetchWithRetry in progress: its options, its
    \* locals, where it stands, the outcomes of its fetch calls and the delays
    \* it waited so far, and how it settled
    fetchRun,
    \* symbols.js: the module's variables, the content of the symbols panel
    \* with the invocation of updateSymbols that wrote it, and the version
    \* each invocation of updateSymbols captured, in the order they started
    symbolsVersion, updateTimeout, symbolsInitialized, container, captured,
    \* editor.js, query.js: the account text last colourised, by which function,
    \* and the coloured pieces it produced, in order
    colorRun,
    \* editor.js: scroller.dataset.tooltipInit, the tooltip element of the
    \* mouse listeners (NoTooltip for null), and the line the pointer is over
    \* (0 when it is over no line)
    tooltipInit, tooltip, pointer,
    \* examples.js: the two Maps, the promises fetch(...).then().then().catch()
    \* built so far, in order, and the calls of loadLazyExample so far with
    \* what each returned
    lazyExampleCache, pendingFetches, fetchPromises, loads

wasmVars == <<worker, wasmReady, wasmError, wasmVersion, messageId, pendingRequests>>
workerVars == <<created, alive, wk, toWorker>>
validationUI == <<statusTab, output, errorLines, knownAccounts, appliedValidation,
                  errorMessages, frames>>
queryUI == <<currentQueryResult, queryOutput>>
mainVars == <<content, liveValidationTimeout, statusTab, output, errorLines,
              knownAccounts, appliedValidation, currentQueryResult, queryOutput,
              errorMessages, frames>>
queryInputVars == <<queryValidationTimeout, queryText, queryTint>>
\* the state outside the bridge and the panels of main.js
queryDropdown == <<autocompleteHidden, autocompleteSelectedIndex, autocompleteItems,
                   autocompleteContext>>
dropdownVars == <<queryDropdown, accountAutocomplete, currentWord>>
\* the state of the modules that use neither the bridge nor the panels
symbolVars == <<symbolsVersion, updateTimeout, symbolsInitialized, container, captured>>
\* the state of the view helpers
tooltipVars == <<tooltipInit, tooltip, pointer>>
lazyVars == <<lazyExampleCache, pendingFetches, fetchPromises, loads>>
viewVars == <<colorRun, tooltipVars, lazyVars>>
auxVars == <<fetchRun, symbolVars, viewVars>>
\* the state a message from the worker reaches no continuation of
uiVarsButSymbols == <<timers, timerSeq, queryInputVars, navLog, dropdownVars, marks,
                      fetchRun, viewVars>>
uiVars == <<timers, timerSeq, queryInputVars, navLog, dropdownVars, marks, auxVars>>
vars == <<worker, wasmReady, wasmError, wasmVersion, messageId, pendingRequests,
          requests, created, alive, wk, toWorker, ip, callLog,
          content, liveValidationTimeout, statusTab, output, errorLines,
          knownAccounts, appliedValidation, currentQueryResult, queryOutput,
          event, injected, timers, timerSeq, queryValidationTimeout, queryText,
          queryTint, navLog, autocompleteHidden, autocompleteSelectedIndex,
          autocompleteItems, autocompleteContext, accountAutocomplete, currentWord,
          errorMessages, frames, marks, fetchRun,
          symbolsVersion, updateTimeout, symbolsInitialized, container, captured,
          colorRun, tooltipInit, tooltip, pointer,
          lazyExampleCache, pendingFetches, fetchPromises, loads>>

\* fetchWithRetry was not called
\* let tooltip = null
NoTooltip == [message |-> Null, line |-> 0]

\* nothing colourised yet
NoColorRun == [by |-> "none", text |-> << >>, start |-> 0, pieces |-> << >>]

\* the symbols panel before updateSymbols wrote to it
EmptyPanel == [text |-> "", call |-> 0, src |-> 0]

NoFetch == [pc |-> "idle", maxRetries |-> 0, baseDelay |-> 0, attempt |-> 0, calls |-> 0,
            seen |-> << >>, waits |-> << >>, lastError |-> "", settled |-> "no",
            value |-> NoResponse]

IdleProc == [pc |-> "idle", attempt |-> 0, maxRetries |-> 0, w |-> NoWorker,
             lastError |-> Null, delays |-> << >>]

\* the state after the modules are loaded, in a run that can construct n
\* Worker objects
\* the names loadLazyExample is called with: the key of lazyExampleUrls and
\* the name of an inline example
ExampleNames == {"beancount-example", "simple"}

InitPool(n) ==
    /\ worker = NoWorker
    /\ wasmReady = FALSE
    /\ wasmError = Null
    /\ wasmVersion = Unknown
    /\ messageId = 0
    /\ pendingRequests = {}
    /\ requests = << >>
    /\ created = 0
    /\ alive = {}
    /\ wk = [w \in 1..n |-> "unborn"]
    /\ toWorker = << >>
    /\ ip = [p \in Procs |-> IdleProc]
    /\ callLog = Null
    /\ content = 0
    /\ liveValidationTimeout = 0
    /\ statusTab = "Ready"
    /\ output = NoOutput
    /\ errorLines = {}
    /\ knownAccounts = {}
    /\ appliedValidation = NoId
    /\ currentQueryResult = NoQueryResult
    /\ queryOutput = Shown("initial", NoId)
    /\ event = NoEvent
    /\ injected = 0
    /\ timers = {}
    /\ timerSeq = 0
    /\ queryValidationTimeout = 0
    /\ queryText = ""
    /\ queryTint = ""
    /\ navLog = NoNav
    /\ autocompleteHidden = TRUE
    /\ autocompleteSelectedIndex = -1
    /\ autocompleteItems = << >>
    /\ autocompleteContext = NoContext
    /\ accountAutocomplete = NoAccountAutocomplete
    /\ currentWord = [text |-> "", n |-> 0]
    /\ errorMessages = {}
    /\ frames = << >>
    /\ marks = {}
    /\ fetchRun = NoFetch
    /\ symbolsVersion = 0
    /\ updateTimeout = 0
    /\ symbolsInitialized = FALSE
    /\ container = EmptyPanel
    /\ captured = << >>
    /\ colorRun = NoColorRun
    /\ tooltipInit = FALSE
    /\ tooltip = NoTooltip
    /\ pointer = 0
    /\ lazyExampleCache = [name \in ExampleNames |-> Null]
    /\ pendingFetches = [name \in ExampleNames |-> 0]
    /\ fetchPromises = << >>
    /\ loads = << >>

Init == InitPool(MaxWorkers)

InitBoot == InitPool(MaxBootWorkers)

\* ------------------------------------------------------------ Worker objects
FromOthers(q, w) == SelectSeq(q, LAMBDA m : m.w # w)

\* worker.terminate(): the worker stops at once and the messages queued in
\* either direction are discarded. (A message a worker posts is handled by
\* the main thread in the step that posts it: no code of the main thread
\* reads the inbound queue and terminate() empties it, so a message handled
\* later is a message posted later.)
Terminated(w) ==
    /\ alive' = alive \ {w}
    /\ wk' = [wk EXCEPT ![w] = "dead"]
    /\ toWorker' = FromOthers(toWorker, w)

\* terminate the current worker (if any) and construct the next one, which
\* starts loading the engine
Recreated_KeepOld ==
    /\ created' = created + 1
    /\ alive' = alive \cup {created + 1}
    /\ wk' = [wk EXCEPT ![created + 1] = "loading"]
    /\ toWorker' = toWorker

Recreated ==
    /\ created' = created + 1
    /\ alive' = (alive \ {worker}) \cup {created + 1}
    /\ wk' = [x \in DOMAIN wk |->
                IF x = created + 1 THEN "loading"
                ELSE IF x = worker THEN "dead" ELSE wk[x]]
    /\ toWorker' = FromOthers(toWorker, worker)

\* the entries of the pending table after a worker is torn down: the table
\* is left as it is
PendingAfterTeardown == pendingRequests

\* ------------------------------------------------------------------ initWasm
\* the catch block of initWasm's loop, for the call whose record is rec:
\* the record after the attempt was rejected with message msg
AfterReject(rec, msg) ==
    IF NonRetryable(msg)
    THEN [rec EXCEPT !.pc = "rejected", !.lastError = msg]
    ELSE IF rec.attempt < rec.maxRetries
    THEN [rec EXCEPT !.pc = "backoff", !.lastError = msg,
                     !.delays = Append(@, BackoffDelay(WASM_BASE_DELAY, rec.attempt))]
    ELSE [rec EXCEPT !.pc = "rejected", !.lastError = msg]

\* attemptWasmInit, run by call p whose record (attempt number set) is rec
AttemptWasmInit(p, rec) ==
    /\ created + 1 \in DOMAIN wk
    /\ \/ \* new Worker(...) returns
          /\ Recreated
          /\ worker' = created + 1
          /\ ip' = [ip EXCEPT ![p] = [rec EXCEPT !.pc = "awaiting", !.w = created + 1]]
          /\ UNCHANGED <<wasmReady, wasmError>>
       \/ \* new Worker(...) throws
          /\ \E e \in {"boom"} :
                /\ wasmError' = e
                /\ ip' = [ip EXCEPT ![p] = AfterReject(rec, formatWasmError(e))]
          /\ wasmReady' = FALSE
          /\ worker' = NoWorker
          /\ IF worker # NoWorker THEN Terminated(worker)
             ELSE UNCHANGED <<alive, wk, toWorker>>
          /\ UNCHANGED created
    /\ pendingRequests' = PendingAfterTeardown
    /\ UNCHANGED <<wasmVersion, messageId, requests, mainVars, injected, uiVars>>
    /\ callLog' = Null
    /\ event' = NoEvent

InitWasm(p, maxRetries) ==
    /\ ip[p].pc \in {"idle", "resolved", "rejected"}
    /\ IF worker # NoWorker /\ wasmReady
       THEN /\ ip' = [ip EXCEPT ![p] = [IdleProc EXCEPT !.pc = "resolved",
                                                        !.maxRetries = maxRetries]]
            /\ UNCHANGED <<wasmVars, requests, workerVars, mainVars, injected, uiVars>>
            /\ callLog' = Null
            /\ event' = NoEvent
       ELSE AttemptWasmInit(p, [IdleProc EXCEPT !.maxRetries = maxRetries])

\* the backoff timer of call p fires: the loop's next attempt
BackoffDone(p) ==
    /\ ip[p].pc = "backoff"
    /\ AttemptWasmInit(p, [ip[p] EXCEPT !.attempt = @ + 1])

\* the 30 s timer of call p's pending attempt fires
BootTimeout(p) ==
    /\ ip[p].pc = "awaiting"
    /\ ip' = [ip EXCEPT ![p] = AfterReject(@, TimeoutMsg)]
    /\ wasmReady' = FALSE
    /\ UNCHANGED <<worker, wasmError, wasmVersion, messageId, pendingRequests,
                   requests, workerVars, mainVars, injected, uiVars>>
    /\ callLog' = Null
    /\ event' = NoEvent

\* worker.onerror of the attempt that constructed worker w
WorkerOnError(w) ==
    /\ w \in alive
    /\ wk[w] = "loading"
    /\ \E e \in RawErrors :
          /\ wasmError' = e
          /\ ip' = [p \in Procs |->
                      IF ip[p].pc = "awaiting" /\ ip[p].w = w
                      THEN AfterReject(ip[p], formatWasmError(e)) ELSE ip[p]]
    /\ wasmReady' = FALSE
    /\ wk' = [wk EXCEPT ![w] = "failed"]
    /\ UNCHANGED <<worker, wasmVersion, messageId, pendingRequests, requests,
                   created, alive, toWorker, mainVars, injected, uiVars>>
    /\ callLog' = Null
    /\ event' = NoEvent

\* the ready flag after terminateWorker dropped the worker
ReadyAfterTerminate_Kept == wasmReady

ReadyAfterTerminate == FALSE

terminateWorker ==
    /\ IF worker # NoWorker
       THEN /\ Terminated(worker)
            /\ worker' = NoWorker
            /\ wasmReady' = ReadyAfterTerminate
            /\ pendingRequests' = PendingAfterTeardown
       ELSE UNCHANGED <<alive, wk, toWorker, worker, wasmReady, pendingRequests>>
    /\ UNCHANGED <<wasmError, wasmVersion, messageId, requests, created, ip,
                   mainVars, injected, uiVars>>
    /\ callLog' = Null
    /\ event' = NoEvent

\* ----------------------------------------------------------------- transport
\* Map.set(id, entry) on the pending table; k is the request the entry's
\* resolve and reject belong to
MapSet(table, id, k) == {e \in table : e.id # id} \cup {[id |-> id, k |-> k]}

MapHas(table, id) == \E e \in table : e.id = id

MapGet(table, id) == (CHOOSE e \in table : e.id = id).k

MapDelete(table, id) == {e \in table : e.id # id}

\* messageId++ : the counter after an ID was taken
NextMessageId_Stuck == messageId

NextMessageId == messageId + 1

\* the readiness check every facade function starts with
EngineNotReady_WorkerOnly == worker = NoWorker

EngineNotReady == ~wasmReady

\* validateSource, formatSource, executeQuery, getBqlCompletions, ... :
\* the facade function for `op`, called by `caller` up to its await
FacadeCall(op, caller, src, q) ==
    IF EngineNotReady
    THEN /\ callLog' = "returned null"
         /\ event' = NoEvent
         /\ UNCHANGED <<messageId, pendingRequests, requests, toWorker>>
    ELSE IF worker = NoWorker
    THEN \* sendMessage rejects, the facade catches and returns null
         /\ callLog' = "returned null"
         /\ event' = NoEvent
         /\ UNCHANGED <<messageId, pendingRequests, requests, toWorker>>
    ELSE /\ Len(requests) < MaxMsgs
         /\ callLog' = "awaiting"
         /\ event' = NoEvent
         /\ messageId' = NextMessageId
         /\ pendingRequests' = MapSet(pendingRequests, messageId, Len(requests) + 1)
         /\ requests' = Append(requests,
                [id |-> messageId, op |-> op, caller |-> caller, src |-> src,
                 q |-> q, w |-> worker, st |-> "pending", settles |-> 0,
                 value |-> NoResult])
         /\ toWorker' = Append(toWorker,
                [w |-> worker, id |-> messageId, action |-> op, src |-> src, q |-> q])

\* ------------------------------------------------------------- worker script
Versions == {"0.4.1"}

ReadyMsg(w, v) == [w |-> w, id |-> NoId, type |-> "ready", result |-> NoResult,
                   error |-> Null, version |-> v]

ErrorMsg(w, id, e) == [w |-> w, id |-> id, type |-> "error", result |-> NoResult,
                       error |-> e, version |-> Null]

ResultMsg(w, id, r) == [w |-> w, id |-> id, type |-> "result", result |-> r,
                        error |-> Null, version |-> Null]

First(q, w) == SelectSeq(q, LAMBDA m : m.w = w)[1]

HasFirst(q, w) == \E i \in 1..Len(q) : q[i].w = w

RECURSIVE DropFirst(_, _)
DropFirst(q, w) ==
    IF q = << >> THEN << >>
    ELSE IF Head(q).w = w THEN Tail(q)
    ELSE <<Head(q)>> \o DropFirst(Tail(q), w)

\* --------------------------------------------------- handleWorkerMessage
IsReadyMsg_NoIdOnly(m) == m.type = "ready" /\ m.id = NoId

IsReadyMsg(m) == m.type = "ready"

IsInitError_AnyError(m) == m.type = "error"

IsInitError(m) == m.type = "error" /\ m.id = NoId

\* pendingRequests.delete(id) once the entry was found
PendingAfterResponse_Kept(id) == pendingRequests

PendingAfterResponse(id) == MapDelete(pendingRequests, id)

\* what handleWorkerMessage makes of event.data = m: the module state after
\* it, and the request whose resolve or reject it called (0: none)
handleWorkerMessage(m) ==
    IF IsReadyMsg(m)
    THEN [wasmReady |-> TRUE,
          wasmVersion |-> IF m.version = "" \/ m.version = Null THEN Unknown ELSE m.version,
          wasmError |-> Null, pendingRequests |-> pendingRequests, settled |-> 0]
    ELSE IF IsInitError(m)
    THEN [wasmReady |-> FALSE, wasmVersion |-> wasmVersion, wasmError |-> m.error,
          pendingRequests |-> pendingRequests, settled |-> 0]
    ELSE IF MapHas(pendingRequests, m.id)
    THEN [wasmReady |-> wasmReady, wasmVersion |-> wasmVersion, wasmError |-> wasmError,
          pendingRequests |-> PendingAfterResponse(m.id),
          settled |-> MapGet(pendingRequests, m.id)]
    ELSE [wasmReady |-> wasmReady, wasmVersion |-> wasmVersion, wasmError |-> wasmError,
          pendingRequests |-> pendingRequests, settled |-> 0]

\* pending.resolve(result) / pending.reject(new Error(error)) on request k:
\* a promise keeps its first settlement
SettleRequest(k, m) ==
    [requests EXCEPT ![k] =
        IF @.st = "pending"
        THEN [@ EXCEPT !.st = IF m.type = "error" THEN "rejected" ELSE "resolved",
                       !.value = IF m.type = "error"
                                 THEN [kind |-> "error", error |-> m.error]
                                 ELSE m.result,
                       !.settles = @ + 1]
        ELSE [@ EXCEPT !.settles = @ + 1]]

\* what the awaiting facade function returns to its caller
FacadeReturn(m) == IF m.type = "error" THEN NoResult ELSE m.result

\* ------------------------------------------------------------------- main.js
\* errorLines.clear(), errorMessages.clear()
clear_Noop(collection) == collection

clear(collection) == {}

\* errorMessages.set(line, message)
SetMessage(messages, line, message) ==
    {e \in messages : e.line # line} \cup {[line |-> line, message |-> message]}

\* result.errors.forEach: an error with a line is added to errorLines and its
\* message stored under the line; state is [lines, messages]
RECURSIVE AddErrors(_, _)
AddErrors(state, errors) ==
    IF errors = << >> THEN state
    ELSE LET err == Head(errors) IN
         AddErrors(IF err.line # 0
                   THEN [lines |-> state.lines \cup {err.line},
                         messages |-> SetMessage(state.messages, err.line, err.message)]
                   ELSE state,
                   Tail(errors))

\* liveValidate after its await, for the request r it sent
ValidationApplied_NullAsError(r, result) ==
    /\ statusTab' = IF result = NoResult THEN "Error" ELSE "Valid"
    /\ UNCHANGED <<output, errorLines, knownAccounts, appliedValidation, errorMessages,
                   frames>>

ValidationApplied(r, result) ==
    IF result = NoResult
    THEN UNCHANGED validationUI
    ELSE LET cleared == [lines |-> clear(errorLines), messages |-> clear(errorMessages)]
             added == AddErrors(cleared, result.errors)
         IN
         /\ knownAccounts' = extractAccounts(r.src)
         /\ appliedValidation' = r.id
         /\ IF result.valid
            THEN /\ errorLines' = cleared.lines
                 /\ errorMessages' = cleared.messages
                 /\ statusTab' = "Valid"
                 /\ output' = [text |-> "No errors found", src |-> r.src, lines |-> {}]
                 /\ frames' = Append(frames, "empty")
            ELSE /\ errorLines' = added.lines
                 /\ errorMessages' = added.messages
                 /\ statusTab' = "Errors"
                 /\ output' = [text |-> "Line", src |-> r.src, lines |-> result.lines]
                 /\ frames' = Append(frames, "live")

\* Math.ceil(n / d) for n >= 0, d > 0
Ceil(n, d) == (n + d - 1) \div d

Min(a, b) == IF a <= b THEN a ELSE b

TotalPages(res) == Ceil(res.rows, QUERY_PAGE_SIZE)

\* endIdx of renderQueryPage
EndIdx_NoMin(startIdx, totalRows) == startIdx + QUERY_PAGE_SIZE

EndIdx(startIdx, totalRows) == Min(startIdx + QUERY_PAGE_SIZE, totalRows)

\* renderQueryPage(page) for the stored result res: the content of the query
\* output after it. The rows of the result are numbered 1..res.rows in
\* their order; the table shows rows first..last (rows.slice(startIdx,
\* endIdx)) under "Showing first-last of N rows", and the page controls
\* when there is more than one page.
renderQueryPage(res, page) ==
    IF res = NoQueryResult THEN queryOutput
    ELSE LET startIdx == page * QUERY_PAGE_SIZE
             endIdx == EndIdx(startIdx, res.rows)
         IN [kind |-> "table", from |-> res.from, page |-> page,
             first |-> startIdx + 1, last |-> endIdx,
             pages |-> TotalPages(res), controls |-> TotalPages(res) > 1]

\* the page runQuery renders for a new result
FirstPage_Keep == queryOutput.page

FirstPage == 0

\* runQuery after its await, for the request r it sent
QueryApplied(r, result) ==
    IF result = NoResult
    THEN UNCHANGED queryUI
    ELSE IF result.error # Null
    THEN /\ currentQueryResult' = NoQueryResult
         /\ queryOutput' = Shown("error", r.id)
    ELSE IF result.rows > 0
    THEN /\ currentQueryResult' = [rows |-> result.rows, from |-> r.id]
         /\ queryOutput' = renderQueryPage([rows |-> result.rows, from |-> r.id], FirstPage)
    ELSE /\ currentQueryResult' = NoQueryResult
         /\ queryOutput' = Shown("empty", r.id)

\* the bounds check of goToQueryPage
PageInRange_NoUpper(page, totalPages) == page >= 0

PageInRange(page, totalPages) == ~(page < 0 \/ page >= totalPages)

goToQueryPage(page) ==
    /\ IF currentQueryResult = NoQueryResult
       THEN /\ UNCHANGED queryOutput
            /\ navLog' = [page |-> page, rendered |-> FALSE, called |-> TRUE]
       ELSE IF ~PageInRange(page, TotalPages(currentQueryResult))
       THEN /\ UNCHANGED queryOutput
            /\ navLog' = [page |-> page, rendered |-> FALSE, called |-> TRUE]
       ELSE /\ queryOutput' = renderQueryPage(currentQueryResult, page)
            /\ navLog' = [page |-> page, rendered |-> TRUE, called |-> TRUE]
    /\ UNCHANGED <<wasmVars, requests, workerVars, ip, content, liveValidationTimeout,
                   validationUI, currentQueryResult, injected, timers, timerSeq,
                   queryInputVars, dropdownVars, marks, auxVars>>
    /\ callLog' = Null
    /\ event' = NoEvent

\* the caller of request k resumes with what the facade returns
Resumed(k, m) ==
    LET r == requests[k] IN
    IF r.st # "pending"
    THEN UNCHANGED <<validationUI, queryUI>>
    ELSE CASE r.caller = "liveValidate" ->
                /\ ValidationApplied(r, FacadeReturn(m))
                /\ UNCHANGED queryUI
           [] r.caller = "runQuery" ->
                /\ QueryApplied(r, FacadeReturn(m))
                /\ UNCHANGED validationUI
           [] OTHER -> UNCHANGED <<validationUI, queryUI>>

\* worker.onmessage as set by the attempt that constructed worker w, handed
\* event.data = m: handleWorkerMessage, then the attempt's promise
OnMessage(w, m) ==
    LET h == handleWorkerMessage(m)
        waiting == {p \in Procs : ip[p].pc = "awaiting" /\ ip[p].w = w}
        bootError == m.type = "error" /\ m.id = NoId
    IN
    /\ wasmReady' = IF bootError /\ waiting # {} THEN FALSE ELSE h.wasmReady
    /\ wasmVersion' = h.wasmVersion
    /\ wasmError' = h.wasmError
    /\ pendingRequests' = h.pendingRequests
    /\ IF h.settled = 0
       THEN UNCHANGED <<requests, validationUI, queryUI>>
       ELSE /\ requests' = SettleRequest(h.settled, m)
            /\ Resumed(h.settled, m)
    /\ ip' = [p \in Procs |->
                IF p \notin waiting THEN ip[p]
                ELSE IF m.type = "ready" THEN [ip[p] EXCEPT !.pc = "resolved"]
                ELSE IF bootError THEN AfterReject(ip[p], formatWasmError(m.error))
                ELSE ip[p]]
    /\ UNCHANGED <<worker, messageId, created, alive, content,
                   liveValidationTimeout>>
    /\ callLog' = Null
    /\ event' = m

\* ------------------------------------------------------------- worker script
\* the worker's own initWasm, started when the script loads, succeeds and
\* posts 'ready'
WorkerBootOk(w) ==
    /\ w \in alive
    /\ wk[w] = "loading"
    /\ wk' = [wk EXCEPT ![w] = "ready"]
    /\ \E v \in Versions : OnMessage(w, ReadyMsg(w, v))
    /\ UNCHANGED <<toWorker, injected, uiVars>>

\* ... or fails and posts 'error' without id
WorkerBootFail(w) ==
    /\ w \in alive
    /\ wk[w] = "loading"
    /\ wk' = [wk EXCEPT ![w] = "failed"]
    /\ \E e \in RawErrors : OnMessage(w, ErrorMsg(w, NoId, e))
    /\ UNCHANGED <<toWorker, injected, uiVars>>

\* self.onmessage up to its await: a request reaches a worker whose engine
\* is not loaded, and initWasm is run again
WorkerInitAgain(w) ==
    /\ w \in alive
    /\ wk[w] = "failed"
    /\ HasFirst(toWorker, w)
    /\ \/ /\ wk' = [wk EXCEPT ![w] = "ready"]
          /\ \E v \in Versions : OnMessage(w, ReadyMsg(w, v))
       \/ /\ wk' = [wk EXCEPT ![w] = "no engine"]
          /\ \E e \in RawErrors : OnMessage(w, ErrorMsg(w, NoId, e))
    /\ UNCHANGED <<toWorker, injected, uiVars>>

\* the switch of self.onmessage for request m
WorkerReply_Anonymous(w, m, loaded) ==
    IF m.action \notin WorkerActions THEN ErrorMsg(w, NoId, "Unknown action")
    ELSE IF loaded THEN ResultMsg(w, m.id, EngineResult(m.action, m.src, m.q))
    ELSE ErrorMsg(w, NoId, "TypeError")

WorkerReply(w, m, loaded) ==
    IF m.action \notin WorkerActions THEN ErrorMsg(w, m.id, "Unknown action")
    ELSE IF loaded THEN ResultMsg(w, m.id, EngineResult(m.action, m.src, m.q))
    ELSE ErrorMsg(w, m.id, "TypeError")

\* the version test of the timer callback of updateSymbols, for the
\* invocation `call`
IsLatestRequest(call) == captured[call] = symbolsVersion

\* the timer callback of updateSymbols after `await getDocumentSymbols`, for
\* the invocation `call` with source src: symbols is what the facade returned
SymbolsApplied(call, src, symbols) ==
    /\ container' = IF ~IsLatestRequest(call) THEN container
                    ELSE IF symbols # NoResult
                    THEN [text |-> "symbols", call |-> call, src |-> src]
                    ELSE [text |-> "unable", call |-> call, src |-> src]
    /\ UNCHANGED <<symbolsVersion, updateTimeout, symbolsInitialized, captured>>

\* the timer callback of updateSymbols resumes when message m settles the
\* request its getDocumentSymbols sent
SymbolsResumed(m) ==
    LET k == handleWorkerMessage(m).settled IN
    IF k = 0 THEN UNCHANGED symbolVars
    ELSE IF requests[k].st # "pending" \/ requests[k].caller # "updateSymbols"
    THEN UNCHANGED symbolVars
    ELSE SymbolsApplied(requests[k].q, requests[k].src, FacadeReturn(m))

\* the next reply of worker w is a format result that resumes runFormat
IsFormatReply(w) ==
    /\ w \in alive
    /\ wk[w] = "ready"
    /\ HasFirst(toWorker, w)
    /\ First(toWorker, w).action = "format"
    /\ MapHas(pendingRequests, First(toWorker, w).id)
    /\ requests[MapGet(pendingRequests, First(toWorker, w).id)].caller = "runFormat"
    /\ requests[MapGet(pendingRequests, First(toWorker, w).id)].st = "pending"

\* self.onmessage for the oldest request posted to worker w: the switch and
\* the message it posts
WorkerOnMessage(w) ==
    /\ w \in alive
    /\ wk[w] \in {"ready", "no engine"}
    /\ HasFirst(toWorker, w)
    /\ ~IsFormatReply(w)
    /\ OnMessage(w, WorkerReply(w, First(toWorker, w), wk[w] = "ready"))
    /\ wk' = [wk EXCEPT ![w] = IF @ = "no engine" THEN "failed" ELSE @]
    /\ toWorker' = DropFirst(toWorker, w)
    /\ SymbolsResumed(WorkerReply(w, First(toWorker, w), wk[w] = "ready"))
    /\ UNCHANGED <<injected, uiVarsButSymbols>>

\* liveValidate up to its await
liveValidate ==
    IF ~wasmReady
    THEN /\ UNCHANGED <<messageId, pendingRequests, requests, toWorker>>
         /\ callLog' = Null
         /\ event' = NoEvent
    ELSE FacadeCall("validateSource", "liveValidate", content, Null)

LiveValidateCalled ==
    /\ liveValidate
    /\ UNCHANGED <<worker, wasmReady, wasmError, wasmVersion, created, alive, wk,
                   ip, mainVars, injected, uiVars>>

\* clearTimeout(id): 0 stands for the null the timer variables start with
clearTimeout_Noop(ts, id) == ts

clearTimeout(ts, id) == {t \in ts : t.id # id}

\* setTimeout(callback, delay): the pending timer of handler `of`, whose
\* callback captured q; gen is the editor content at the time of the call
Timer(id, of, q, gen) == [id |-> id, of |-> of, q |-> q, gen |-> gen]

onEditorChange(_content) ==
    /\ content' = _content
    /\ timers' = clearTimeout(timers, liveValidationTimeout)
                    \cup {Timer(timerSeq + 1, "edit", "", _content)}
    /\ timerSeq' = timerSeq + 1
    /\ liveValidationTimeout' = timerSeq + 1
    /\ UNCHANGED <<wasmVars, requests, workerVars, ip, validationUI, queryUI,
                   injected, queryInputVars, navLog, marks, auxVars, dropdownVars>>
    /\ callLog' = Null
    /\ event' = NoEvent

\* a 300 ms timer armed by onEditorChange fires
ValidationTimerFires ==
    \E t \in timers :
        /\ t.of = "edit"
        /\ timers' = timers \ {t}
        /\ liveValidate
        /\ UNCHANGED <<worker, wasmReady, wasmError, wasmVersion, created, alive, wk,
                       ip, mainVars, injected, timerSeq, queryInputVars, navLog, marks, auxVars,
                       dropdownVars>>

\* window.runFormat up to its await
runFormat ==
    /\ IF ~wasmReady
       THEN /\ UNCHANGED <<messageId, pendingRequests, requests, toWorker>>
            /\ callLog' = Null
            /\ event' = NoEvent
       ELSE FacadeCall("format", "runFormat", content, Null)
    /\ UNCHANGED <<worker, wasmReady, wasmError, wasmVersion, created, alive, wk,
                   ip, mainVars, injected, uiVars>>

\* editor.setContent(result.formatted) when the response finds the editor at
\* `current`: the whole document is replaced
SetContent(current, result) == result.formatted

\* the worker's format result arrives and runFormat goes on after its await:
\* setContent (whose update listener calls onEditorChange) and liveValidate
\* up to its own await, or the errors shown in the output panel
FormatResponse(w) ==
    LET msg == First(toWorker, w)
        m == WorkerReply(w, msg, TRUE)
        h == handleWorkerMessage(m)
        result == FacadeReturn(m)
        sends == wasmReady /\ worker # NoWorker
    IN
    /\ IsFormatReply(w)
    /\ event' = m
    /\ IF result.formatted # NoId
       THEN /\ content' = SetContent(content, result)
            /\ timers' = clearTimeout(timers, liveValidationTimeout)
                            \cup {Timer(timerSeq + 1, "edit", "", content')}
            /\ timerSeq' = timerSeq + 1
            /\ liveValidationTimeout' = timerSeq + 1
            /\ IF sends
               THEN /\ Len(requests) < MaxMsgs
                    /\ messageId' = NextMessageId
                    /\ pendingRequests' =
                            MapSet(h.pendingRequests, messageId, Len(requests) + 1)
                    /\ requests' = Append(SettleRequest(h.settled, m),
                            [id |-> messageId, op |-> "validateSource",
                             caller |-> "liveValidate", src |-> content',
                             q |-> Null, w |-> worker, st |-> "pending",
                             settles |-> 0, value |-> NoResult])
                    /\ toWorker' = Append(DropFirst(toWorker, w),
                            [w |-> worker, id |-> messageId,
                             action |-> "validateSource", src |-> content',
                             q |-> Null])
                    /\ callLog' = "awaiting"
               ELSE /\ pendingRequests' = h.pendingRequests
                    /\ requests' = SettleRequest(h.settled, m)
                    /\ toWorker' = DropFirst(toWorker, w)
                    /\ callLog' = Null
                    /\ UNCHANGED messageId
            /\ UNCHANGED output
       ELSE /\ output' = [text |-> "Line", src |-> result.src,
                          lines |-> {result.errors[i].line : i \in DOMAIN result.errors}]
            /\ pendingRequests' = h.pendingRequests
            /\ requests' = SettleRequest(h.settled, m)
            /\ toWorker' = DropFirst(toWorker, w)
            /\ callLog' = Null
            /\ UNCHANGED <<content, timers, timerSeq, liveValidationTimeout, messageId>>
    /\ UNCHANGED <<worker, wasmReady, wasmError, wasmVersion, created, alive, wk, ip,
                   statusTab, errorLines, knownAccounts, appliedValidation,
                   errorMessages, frames, queryUI, injected, queryInputVars, navLog,
                   dropdownVars, marks, auxVars>>

\* validateQueryInput, called when the query input's text became `text`
validateQueryInput(text) ==
    /\ queryText' = text
    /\ IF text = ""
       THEN /\ timers' = clearTimeout(timers, queryValidationTimeout)
            /\ queryTint' = ""
            /\ UNCHANGED <<timerSeq, queryValidationTimeout>>
       ELSE /\ timers' = clearTimeout(timers, queryValidationTimeout)
                           \cup {Timer(timerSeq + 1, "query", text, content)}
            /\ timerSeq' = timerSeq + 1
            /\ queryValidationTimeout' = timerSeq + 1
            /\ UNCHANGED queryTint

\* validateQueryInput called on its own
ValidateQueryInputCalled(text) ==
    /\ validateQueryInput(text)
    /\ UNCHANGED <<wasmVars, requests, workerVars, ip, mainVars, injected, navLog, marks, auxVars,
                   dropdownVars>>
    /\ callLog' = Null
    /\ event' = NoEvent

\* a 150 ms timer armed by validateQueryInput fires; the source it sends is
\* the one the last applied validation stored on the input
QueryTimerFires ==
    \E t \in timers :
        /\ t.of = "query"
        /\ timers' = timers \ {t}
        /\ IF ~wasmReady \/ appliedValidation = NoId
           THEN /\ UNCHANGED <<messageId, pendingRequests, requests, toWorker, queryTint>>
                /\ callLog' = Null
                /\ event' = NoEvent
           ELSE /\ FacadeCall("query", "validateQueryInput", output.src, t.q)
                /\ queryTint' = "green"
        /\ UNCHANGED <<worker, wasmReady, wasmError, wasmVersion, created, alive, wk,
                       ip, mainVars, injected, timerSeq, queryValidationTimeout,
                       queryText, navLog, marks, auxVars, dropdownVars>>

runQuery(queryStr) ==
    /\ IF ~wasmReady
       THEN /\ UNCHANGED <<messageId, pendingRequests, requests, toWorker>>
            /\ callLog' = Null
            /\ event' = NoEvent
       ELSE FacadeCall("query", "runQuery", content, queryStr)
    /\ UNCHANGED <<worker, wasmReady, wasmError, wasmVersion, created, alive, wk,
                   ip, mainVars, injected, uiVars>>

\* any other caller of a facade function (editor, query input, symbols panel)
ApiCall(op) ==
    /\ wasmReady /\ worker # NoWorker =>
          Len(SelectSeq(requests, LAMBDA r : r.caller = "api")) < MaxApiSends
    /\ FacadeCall(op, "api", content, IF op = "query" THEN "BALANCES" ELSE Null)
    /\ UNCHANGED <<worker, wasmReady, wasmError, wasmVersion, created, alive, wk,
                   ip, mainVars, injected, uiVars>>

\* --------------------------------------------- editor.js: error highlights
\* the callback highlightErrorLines passes to requestAnimationFrame, over the
\* rendered lines 1..lineCount: a line of lineNumbers gets the class and, if
\* errorMessages has it, its message (it keeps the message it carried
\* otherwise); every other line loses both
highlighted_AllLines(old, lineNumbers, messages, lineCount) ==
    {e \in messages : e.line \in lineNumbers}

highlighted(old, lineNumbers, messages, lineCount) ==
    LET shown == {l \in 1..lineCount : l \in lineNumbers}
        has(l) == \E e \in messages : e.line = l
    IN  {e \in messages : e.line \in shown}
           \cup {e \in old : e.line \in shown /\ ~has(e.line)}
           \cup {[line |-> l, message |-> Null] :
                    l \in {x \in shown : ~has(x) /\ ~\E e \in old : e.line = x}}

\* the browser runs the oldest pending animation-frame callback. The call
\* made for a valid result captured an empty Set and Map of its own; the call
\* made for errors captured errorLines and errorMessages themselves
AnimationFrame ==
    /\ frames # << >>
    /\ frames' = Tail(frames)
    /\ marks' = IF Head(frames) = "live"
                THEN highlighted(marks, errorLines, errorMessages, LineCount(content))
                ELSE highlighted(marks, {}, {}, LineCount(content))
    /\ tooltipInit' = TRUE
    /\ UNCHANGED <<wasmVars, requests, workerVars, ip, content, liveValidationTimeout,
                   statusTab, output, errorLines, knownAccounts, appliedValidation,
                   errorMessages, queryUI, injected, timers, timerSeq, queryInputVars,
                   navLog, dropdownVars, fetchRun, lazyVars, symbolVars, colorRun,
                   tooltip,
                   pointer>>
    /\ callLog' = Null
    /\ event' = NoEvent

\* ---------------------------------------------- editor.js: error tooltip
\* target.closest('.cm-error-line') for a target in line l, and its
\* dataset.errorMessage
IsErrorLine(l) == \E e \in marks : e.line = l

ErrorMessageOf(l) ==
    IF \E e \in marks : e.line = l /\ e.message # Null
    THEN (CHOOSE e \in marks : e.line = l /\ e.message # Null).message
    ELSE Null

\* the part of the state the mouse listeners do not touch
TooltipFrame ==
    /\ UNCHANGED <<wasmVars, requests, workerVars, ip, mainVars, injected, timers,
                   timerSeq, queryInputVars, navLog, dropdownVars, marks, lazyVars, fetchRun,
                   symbolVars, colorRun, tooltipInit>>
    /\ callLog' = Null
    /\ event' = NoEvent

\* the pointer enters line l: the mouseover listener, once it is installed
mouseover(l) ==
    /\ pointer = 0
    /\ pointer' = l
    /\ tooltip' = IF tooltipInit /\ IsErrorLine(l) /\ ErrorMessageOf(l) # Null
                  THEN [message |-> ErrorMessageOf(l), line |-> l]
                  ELSE tooltip
    /\ TooltipFrame

\* the pointer leaves line l: the mouseout listener, once it is installed
mouseout(l) ==
    /\ pointer = l
    /\ pointer' = 0
    /\ tooltip' = IF tooltipInit /\ IsErrorLine(l) /\ tooltip # NoTooltip
                  THEN NoTooltip
                  ELSE tooltip
    /\ TooltipFrame

\* ---------------------------------------- editor.js: account autocomplete
\* words the user can have before the cursor after a change of the document
EditorWords == {"A", "As", "In", "Ex", "to"}

\* positions in the document at which the word before the cursor can start
WordStarts == {0, 8}

\* currentWord.length >= 2 && /^[A-Z][A-Za-z0-9-]*:?/.test(currentWord)
LooksLikeAccount(w) ==
    CASE w \in {"A", ""} -> FALSE
      [] w = "to" -> FALSE
      [] OTHER -> TRUE

\* a.toLowerCase().includes(filter.toLowerCase())
LowerIncludes(a, filter) ==
    CASE filter \in {"A", ""} -> TRUE
      [] filter = "As" -> a \in {"Assets:Bank", "Assets:Cash"}
      [] filter = "In" -> a = "Income:Salary"
      [] filter \in {"Ex", "to"} -> FALSE
      [] OTHER -> a = filter

\* the dropdown lists at most this many accounts
MaxShown == 10

\* array.slice(0, n)
Slice(array, n) == SubSeq(array, 1, Min(Len(array), n))

hideAccountAutocomplete(aa) ==
    [aa EXCEPT !.hidden = TRUE, !.active = FALSE, !.items = << >>, !.selectedIndex = -1]

showAccountAutocomplete(aa, accounts, filter, startPos) ==
    LET items == Slice(SelectSeq(accounts, LAMBDA a : LowerIncludes(a, filter)), MaxShown)
    IN  IF Len(items) = 0
        THEN hideAccountAutocomplete([aa EXCEPT !.items = items])
        ELSE [aa EXCEPT !.items = items, !.selectedIndex = 0, !.startPos = startPos,
                        !.active = TRUE, !.hidden = FALSE]

\* the update listener of the editor for a change of the document that
\* leaves word w, starting at startPos, before the cursor
UpdateListener(aa, accounts, w, startPos) ==
    IF LooksLikeAccount(w)
    THEN IF Len(ArrayFrom(accounts)) > 0
         THEN showAccountAutocomplete(aa, ArrayFrom(accounts), w, startPos)
         ELSE aa
    ELSE hideAccountAutocomplete(aa)

\* index is counted from 0 as in the code
updateAccountAutocompleteSelection_NoWrap(aa, direction) ==
    IF Len(aa.items) = 0 THEN aa
    ELSE [aa EXCEPT !.selectedIndex = @ + direction]

updateAccountAutocompleteSelection(aa, direction) ==
    IF Len(aa.items) = 0 THEN aa
    ELSE LET moved == aa.selectedIndex + direction
             low == IF moved < 0 THEN Len(aa.items) - 1 ELSE moved
         IN  [aa EXCEPT !.selectedIndex = IF low >= Len(aa.items) THEN 0 ELSE low]

\* the part of the state no handler of the editor's dropdown touches
EditorFrame ==
    /\ UNCHANGED <<wasmVars, requests, workerVars, ip, mainVars, injected, timers,
                   timerSeq, queryInputVars, navLog, marks, auxVars, queryDropdown>>
    /\ callLog' = Null
    /\ event' = NoEvent

\* a change of the document reaches the update listener of the autocomplete
autocompleteUpdateListener(w, startPos) ==
    /\ currentWord.n < MaxTyped
    /\ currentWord' = [text |-> w, n |-> currentWord.n + 1]
    /\ accountAutocomplete' = UpdateListener(accountAutocomplete, knownAccounts, w, startPos)
    /\ EditorFrame

\* selectAccountAutocompleteItem: the item replaces the text from startPos to
\* the cursor; the dispatch runs the update listener on the new word before
\* it returns, and then the dropdown is hidden
selectAccountAutocompleteItem(index) ==
    IF index < 0 \/ index >= Len(accountAutocomplete.items)
    THEN UNCHANGED <<accountAutocomplete, currentWord>>
    ELSE LET item == accountAutocomplete.items[index + 1] IN
         /\ currentWord' = [text |-> item, n |-> currentWord.n + 1]
         /\ accountAutocomplete' =
               hideAccountAutocomplete(
                   UpdateListener(accountAutocomplete, knownAccounts, item,
                                  accountAutocomplete.startPos))

\* Math.max
MathMax(a, b) == IF a >= b THEN a ELSE b

Keys == {"ArrowDown", "ArrowUp", "Enter", "Tab", "Escape"}

\* the autocomplete keymap of the editor
EditorKeydown(key) ==
    /\ currentWord.n < MaxTyped
    /\ CASE key = "ArrowDown" /\ accountAutocomplete.active ->
                /\ accountAutocomplete' =
                      updateAccountAutocompleteSelection(accountAutocomplete, 1)
                /\ UNCHANGED currentWord
         [] key = "ArrowUp" /\ accountAutocomplete.active ->
                /\ accountAutocomplete' =
                      updateAccountAutocompleteSelection(accountAutocomplete, -1)
                /\ UNCHANGED currentWord
         [] key = "Enter" /\ accountAutocomplete.active
                          /\ accountAutocomplete.selectedIndex >= 0 ->
                selectAccountAutocompleteItem(accountAutocomplete.selectedIndex)
         [] key = "Tab" /\ accountAutocomplete.active
                        /\ Len(accountAutocomplete.items) > 0 ->
                selectAccountAutocompleteItem(MathMax(0, accountAutocomplete.selectedIndex))
         [] key = "Escape" /\ accountAutocomplete.active ->
                /\ accountAutocomplete' = hideAccountAutocomplete(accountAutocomplete)
                /\ UNCHANGED currentWord
         [] OTHER -> UNCHANGED <<accountAutocomplete, currentWord>>
    /\ EditorFrame

\* mousedown on the item of the open dropdown with data-index `index`
EditorItemMouseDown(index) ==
    /\ currentWord.n < MaxTyped
    /\ ~accountAutocomplete.hidden
    /\ index < Len(accountAutocomplete.items)
    /\ selectAccountAutocompleteItem(index)
    /\ EditorFrame

\* a click in the document outside the dropdown
handleClickOutside ==
    /\ accountAutocomplete' = hideAccountAutocomplete(accountAutocomplete)
    /\ UNCHANGED currentWord
    /\ EditorFrame

\* ------------------------------------------- query.js: BQL autocomplete
\* texts of the query input and of the completions, and their characters
Texts == {"", "ba", "BAD", "BALANCES", "JOURNAL", "SELECT"}

Chars(text) ==
    CASE text = "" -> << >>
      [] text = "ba" -> <<"b", "a">>
      [] text = "BAD" -> <<"B", "A", "D">>
      [] text = "BALANCES" -> <<"B", "A", "L", "A", "N", "C", "E", "S">>
      [] text = "JOURNAL" -> <<"J", "O", "U", "R", "N", "A", "L">>
      [] text = "SELECT" -> <<"S", "E", "L", "E", "C", "T">>

\* the text with the given characters
TextOf(chars) == CHOOSE text \in Texts : Chars(text) = chars

LowerChar(c) ==
    CASE c = "A" -> "a" [] c = "B" -> "b" [] c = "C" -> "c" [] c = "D" -> "d"
      [] c = "E" -> "e" [] c = "J" -> "j" [] c = "L" -> "l" [] c = "N" -> "n"
      [] c = "O" -> "o" [] c = "R" -> "r" [] c = "S" -> "s" [] c = "T" -> "t"
      [] c = "U" -> "u" [] OTHER -> c

toLowerCase(chars) == [i \in DOMAIN chars |-> LowerChar(chars[i])]

startsWith(chars, prefix) ==
    Len(prefix) <= Len(chars) /\ SubSeq(chars, 1, Len(prefix)) = prefix

\* value.substring(from, to), positions counted from 0
substring(chars, from, to) == SubSeq(chars, from + 1, to)

\* /[\s(),]/
IsDelimiter(c) == c \in {" ", "(", ")", ","}

RECURSIVE TokenStart(_, _)
TokenStart(chars, pos) ==
    IF pos > 0 /\ ~IsDelimiter(chars[pos]) THEN TokenStart(chars, pos - 1) ELSE pos

RECURSIVE TokenEnd(_, _)
TokenEnd(chars, pos) ==
    IF pos < Len(chars) /\ ~IsDelimiter(chars[pos + 1]) THEN TokenEnd(chars, pos + 1)
    ELSE pos

\* the completions the engine offers for a partial query
EngineCompletions(value) == <<"BALANCES", "JOURNAL", "SELECT">>

\* result.completions as handleQueryInput reads it. getBqlCompletions is an
\* async function and handleQueryInput does not await it: result is the
\* promise, which has no property `completions`, whatever it resolves to
CompletionsRead_Awaited(value) == EngineCompletions(value)

CompletionsRead(value) == << >>

hideAutocomplete ==
    /\ autocompleteHidden' = TRUE
    /\ autocompleteSelectedIndex' = -1
    /\ autocompleteItems' = << >>
    /\ autocompleteContext' = NoContext

\* showAutocomplete(completions, filter), after handleQueryInput stored context
showAutocomplete(completions, filter, context) ==
    LET items == SelectSeq(completions,
                     LAMBDA c : startsWith(toLowerCase(Chars(c)), toLowerCase(filter)))
    IN  IF Len(items) = 0
        THEN hideAutocomplete
        ELSE /\ autocompleteItems' = items
             /\ autocompleteSelectedIndex' = -1
             /\ autocompleteHidden' = FALSE
             /\ autocompleteContext' = context

\* handleQueryInput between its call of getBqlCompletions and its call of
\* validateQueryInput
CompletionsHandled(value, cursorPos) ==
    LET completions == CompletionsRead(value)
        tokenStart == TokenStart(Chars(value), cursorPos)
        tokenEnd == TokenEnd(Chars(value), cursorPos)
        currentToken == substring(Chars(value), tokenStart, cursorPos)
    IN  IF Len(completions) > 0
        THEN showAutocomplete(completions, currentToken,
                 [tokenStart |-> tokenStart, tokenEnd |-> tokenEnd, value |-> value])
        ELSE hideAutocomplete

\* no facade function is called in this step
NoBridgeCall ==
    /\ UNCHANGED <<messageId, pendingRequests, requests, toWorker>>
    /\ callLog' = Null
    /\ event' = NoEvent

\* the part of the state no handler of the query input touches
QueryInputFrame ==
    UNCHANGED <<worker, wasmReady, wasmError, wasmVersion, created, alive, wk, ip,
                mainVars, injected, navLog, marks, auxVars, accountAutocomplete, currentWord>>

\* handleQueryInput for an input or focus event that finds text `value` in
\* the input and the cursor at cursorPos
handleQueryInput(value, cursorPos) ==
    /\ IF ~wasmReady
       THEN /\ queryText' = value
            /\ UNCHANGED <<messageId, pendingRequests, requests, toWorker, timers,
                           timerSeq, queryValidationTimeout, queryTint, queryDropdown>>
            /\ callLog' = Null
            /\ event' = NoEvent
       ELSE /\ FacadeCall("bqlCompletions", "handleQueryInput", NoId, value)
            /\ CompletionsHandled(value, cursorPos)
            /\ validateQueryInput(value)
    /\ QueryInputFrame

\* the value selectAutocompleteItem writes to the input
Completed(context, item) ==
    TextOf(substring(Chars(context.value), 0, context.tokenStart)
             \o Chars(item)
             \o substring(Chars(context.value), context.tokenEnd,
                          Len(Chars(context.value))))

\* selectAutocompleteItem(index) from a key: the input keeps the focus
selectAutocompleteItem(index) ==
    IF \/ index < 0 \/ index >= Len(autocompleteItems)
       \/ autocompleteContext = NoContext
    THEN /\ UNCHANGED <<queryDropdown, queryInputVars, timers, timerSeq>>
    ELSE /\ hideAutocomplete
         /\ validateQueryInput(Completed(autocompleteContext, autocompleteItems[index + 1]))

updateAutocompleteSelection(direction) ==
    IF Len(autocompleteItems) = 0
    THEN UNCHANGED autocompleteSelectedIndex
    ELSE LET moved == autocompleteSelectedIndex + direction
             low == IF moved < 0 THEN Len(autocompleteItems) - 1 ELSE moved
         IN  autocompleteSelectedIndex' = IF low >= Len(autocompleteItems) THEN 0 ELSE low

\* the 'runquery' event: main.js runs the text of the input
runQueryFromInput ==
    IF queryText # "" /\ wasmReady
    THEN FacadeCall("query", "runQuery", content, queryText)
    ELSE NoBridgeCall

handleQueryInputKeydown(key) ==
    /\ IF ~autocompleteHidden
       THEN /\ CASE key = "ArrowDown" ->
                      /\ updateAutocompleteSelection(1)
                      /\ UNCHANGED <<autocompleteHidden, autocompleteItems,
                                     autocompleteContext, queryInputVars, timers, timerSeq>>
                 [] key = "ArrowUp" ->
                      /\ updateAutocompleteSelection(-1)
                      /\ UNCHANGED <<autocompleteHidden, autocompleteItems,
                                     autocompleteContext, queryInputVars, timers, timerSeq>>
                 [] key \in {"Enter", "Tab"} /\ autocompleteSelectedIndex >= 0 ->
                      selectAutocompleteItem(autocompleteSelectedIndex)
                 [] key = "Tab" /\ Len(autocompleteItems) > 0 ->
                      selectAutocompleteItem(0)
                 [] key = "Enter" ->
                      /\ hideAutocomplete
                      /\ UNCHANGED <<queryInputVars, timers, timerSeq>>
                 [] key = "Escape" ->
                      /\ hideAutocomplete
                      /\ UNCHANGED <<queryInputVars, timers, timerSeq>>
                 [] OTHER -> UNCHANGED <<queryDropdown, queryInputVars, timers, timerSeq>>
            /\ NoBridgeCall
       ELSE /\ IF key = "Enter" THEN runQueryFromInput ELSE NoBridgeCall
            /\ UNCHANGED <<queryDropdown, queryInputVars, timers, timerSeq>>
    /\ QueryInputFrame

\* the input loses the focus: hideAutocomplete is deferred by 150 ms
QueryInputBlur ==
    /\ timerSeq < MaxUiTimers
    /\ timers' = timers \cup {Timer(timerSeq + 1, "blur", "", content)}
    /\ timerSeq' = timerSeq + 1
    /\ UNCHANGED <<queryDropdown, queryInputVars>>
    /\ NoBridgeCall
    /\ QueryInputFrame

\* a timer armed by the blur of the query input fires
BlurTimerFires ==
    \E t \in timers :
        /\ t.of = "blur"
        /\ timers' = timers \ {t}
        /\ hideAutocomplete
        /\ UNCHANGED <<timerSeq, queryInputVars>>
        /\ NoBridgeCall
        /\ QueryInputFrame

\* a click on the item of the open dropdown with data-index `index`: the
\* input lost the focus to the click, and selectAutocompleteItem gives it
\* back, which dispatches a focus event to handleQueryInput; the timer the
\* first validateQueryInput arms is cleared by the second
QueryItemClicked(index) ==
    /\ ~autocompleteHidden
    /\ index < Len(autocompleteItems)
    /\ autocompleteContext # NoContext
    /\ timerSeq + 1 < MaxUiTimers
    /\ LET item == autocompleteItems[index + 1]
           value == Completed(autocompleteContext, item)
           newPos == autocompleteContext.tokenStart + Len(Chars(item))
       IN  IF ~wasmReady
           THEN /\ hideAutocomplete
                /\ validateQueryInput(value)
                /\ NoBridgeCall
           ELSE /\ FacadeCall("bqlCompletions", "handleQueryInput", NoId, value)
                /\ CompletionsHandled(value, newPos)
                /\ queryText' = value
                /\ timers' = clearTimeout(timers, queryValidationTimeout)
                                \cup {Timer(timerSeq + 2, "query", value, content)}
                /\ timerSeq' = timerSeq + 2
                /\ queryValidationTimeout' = timerSeq + 2
                /\ UNCHANGED queryTint
    /\ QueryInputFrame

\* ------------------------------------- editor.js, query.js: account colours
\* accountColors of editor.js and the colon's colour
accountColors == <<"#22d3ee", "#5eead4", "#6ee7b7", "#fcd34d", "#fdba74">>

colonColor == "rgba(255, 255, 255, 0.5)"

\* colors of formatAccount and the separator's class
colors == <<"text-cyan-400", "text-teal-300", "text-emerald-300", "text-amber-300",
            "text-orange-300">>

separatorClass == "text-white/50"

\* account.split(':') for a text given as its characters
RECURSIVE Split(_)
Split(text) ==
    IF \A j \in 1..Len(text) : text[j] # ":"
    THEN <<text>>
    ELSE LET c == CHOOSE j \in 1..Len(text) :
                     text[j] = ":" /\ \A h \in 1..(j - 1) : text[h] # ":"
         IN  <<SubSeq(text, 1, c - 1)>> \o Split(SubSeq(text, c + 1, Len(text)))

\* Math.min(i, palette.length - 1) for the 0-based part i
ColorIndex_Wrapped(i, length) == i % length

ColorIndex(i, length) == Min(i, length - 1)

\* formatAccount(account): the spans it returns, in order
RECURSIVE FormatParts(_, _)
FormatParts(parts, i) ==
    IF i >= Len(parts) THEN << >>
    ELSE <<[kind |-> "part", text |-> parts[i + 1], from |-> 0, to |-> 0,
            color |-> colors[ColorIndex(i, Len(colors)) + 1]]>>
         \o (IF i < Len(parts) - 1
             THEN <<[kind |-> "colon", text |-> <<":">>, from |-> 0, to |-> 0,
                     color |-> separatorClass]>>
             ELSE << >>)
         \o FormatParts(parts, i + 1)

formatAccount(account) ==
    /\ colorRun' = [by |-> "formatAccount", text |-> account, start |-> 0,
                    pieces |-> FormatParts(Split(account), 0)]
    /\ UNCHANGED <<wasmVars, requests, workerVars, ip, mainVars, injected, timers,
                   timerSeq, queryInputVars, navLog, dropdownVars, marks, lazyVars, fetchRun,
                   symbolVars, tooltipVars>>
    /\ callLog' = Null
    /\ event' = NoEvent

\* accountRegex of buildDecorations matches the whole of text
IsUpper(c) == c \in {"A", "B"}

accountRegexMatches(text) ==
    LET parts == Split(text) IN
    /\ Len(parts) >= 2
    /\ \A i \in 1..Len(parts) : parts[i] # << >>
    /\ IsUpper(parts[1][1])

\* the inner loop of buildDecorations for a match that starts at pos: the
\* ranges added to the builder, in order
RECURSIVE DecorateParts(_, _, _)
DecorateParts(parts, i, pos) ==
    IF i >= Len(parts) THEN << >>
    ELSE LET partEnd == pos + Len(parts[i + 1]) IN
         <<[kind |-> "part", text |-> parts[i + 1], from |-> pos, to |-> partEnd,
            color |-> accountColors[ColorIndex(i, Len(accountColors)) + 1]]>>
         \o (IF i < Len(parts) - 1
             THEN <<[kind |-> "colon", text |-> <<":">>, from |-> partEnd,
                     to |-> partEnd + 1, color |-> colonColor]>>
             ELSE << >>)
         \o DecorateParts(parts, i + 1, partEnd + 1)

\* buildDecorations(view) for a visible range whose text is one word, text,
\* at document position accountStart
buildDecorations(text, accountStart) ==
    /\ colorRun' = [by |-> "buildDecorations", text |-> text, start |-> accountStart,
                    pieces |-> IF accountRegexMatches(text)
                               THEN DecorateParts(Split(text), 0, accountStart)
                               ELSE << >>]
    /\ UNCHANGED <<wasmVars, requests, workerVars, ip, mainVars, injected, timers,
                   timerSeq, queryInputVars, navLog, dropdownVars, marks, lazyVars, fetchRun,
                   symbolVars, tooltipVars>>
    /\ callLog' = Null
    /\ event' = NoEvent

\* ------------------------------------------------------------- symbols.js
\* the part of the state symbols.js does not touch when it sends nothing
SymbolsFrame ==
    UNCHANGED <<wasmVars, requests, workerVars, ip, mainVars, injected,
                queryInputVars, navLog, dropdownVars, marks, fetchRun, viewVars>>

\* updateSymbols(source, container, onNavigate): the pending timer is
\* cancelled, the version is advanced and captured, a 300 ms timer is armed
updateSymbols(source) ==
    /\ Len(captured) < MaxSymbolCalls
    /\ symbolsVersion' = symbolsVersion + 1
    /\ captured' = Append(captured, symbolsVersion + 1)
    /\ timers' = clearTimeout(timers, updateTimeout)
                    \cup {Timer(timerSeq + 1, "symbols", Len(captured) + 1, source)}
    /\ timerSeq' = timerSeq + 1
    /\ updateTimeout' = timerSeq + 1
    /\ UNCHANGED container

\* updateSymbols called on its own
UpdateSymbolsCalled(source) ==
    /\ updateSymbols(source)
    /\ UNCHANGED symbolsInitialized
    /\ SymbolsFrame
    /\ callLog' = Null
    /\ event' = NoEvent

initSymbolsPanel(source) ==
    /\ ~symbolsInitialized
    /\ updateSymbols(source)
    /\ symbolsInitialized' = TRUE
    /\ SymbolsFrame
    /\ callLog' = Null
    /\ event' = NoEvent

\* the value clearSymbolsPanel gives symbolsVersion
ClearedVersion == 0

clearSymbolsPanel ==
    /\ timers' = clearTimeout(timers, updateTimeout)
    /\ updateTimeout' = 0
    /\ symbolsVersion' = ClearedVersion
    /\ symbolsInitialized' = FALSE
    /\ UNCHANGED <<container, captured, timerSeq>>
    /\ SymbolsFrame
    /\ callLog' = Null
    /\ event' = NoEvent

\* the 300 ms timer of updateSymbols fires: 'Loading...', then
\* getDocumentSymbols up to its await; when the facade returns null without
\* sending, the callback resumes before any other task
SymbolsTimerFires ==
    \E t \in timers :
        /\ t.of = "symbols"
        /\ timers' = timers \ {t}
        /\ FacadeCall("getDocumentSymbols", "updateSymbols", t.gen, t.q)
        /\ IF callLog' = "returned null"
           THEN /\ container' = IF IsLatestRequest(t.q)
                                THEN [text |-> "unable", call |-> t.q, src |-> t.gen]
                                ELSE [text |-> "loading", call |-> t.q, src |-> t.gen]
           ELSE /\ container' = [text |-> "loading", call |-> t.q, src |-> t.gen]
        /\ UNCHANGED <<symbolsVersion, updateTimeout, symbolsInitialized, captured>>
        /\ UNCHANGED <<worker, wasmReady, wasmError, wasmVersion, created, alive, wk,
                       ip, mainVars, injected, timerSeq, queryInputVars, navLog,
                       dropdownVars, marks, fetchRun, viewVars>>

\* --------------------------------------------------- utils.js: fetchWithRetry
\* header values that parseInt(value, 10) turns into a number, and the number
ParsesAsInt(value) == value \in {"0", "3", "5"}

ParseInt(value) == CASE value = "3" -> 3 [] value = "5" -> 5 [] OTHER -> 0

\* the longest wait taken from X-RateLimit-Reset, in ms
MaxResetWait == 60000

\* baseDelay * Math.pow(2, attempt)
ExponentialBackoff_Linear(baseDelay, attempt) == baseDelay * (attempt + 1)

ExponentialBackoff(baseDelay, attempt) == baseDelay * Pow2(attempt)

getRetryDelay_BackoffOnly(response, attempt, baseDelay) ==
    ExponentialBackoff(baseDelay, attempt)

getRetryDelay(response, attempt, baseDelay) ==
    IF response.retryAfter # "" /\ ParsesAsInt(response.retryAfter)
    THEN ParseInt(response.retryAfter) * 1000
    ELSE IF response.hasReset /\ response.resetIn > 0
    THEN Min(response.resetIn + 1000, MaxResetWait)
    ELSE ExponentialBackoff(baseDelay, attempt)

\* remaining && parseInt(remaining, 10) === 0
Exhausted_Always(remaining) == TRUE

Exhausted(remaining) ==
    remaining # "" /\ ParsesAsInt(remaining) /\ ParseInt(remaining) = 0

\* the test for GitHub's rate limit
RateLimited_Never(response) == FALSE

RateLimited(response) == Exhausted(response.remaining) /\ response.status = 403

\* attempt < maxRetries
RetriesRemain_Always(attempt, maxRetries) == TRUE

RetriesRemain(attempt, maxRetries) == attempt < maxRetries

ClientError(status) == status >= 400 /\ status < 500 /\ status # 429

Retryable(status) == status >= 500 \/ status = 429

\* await new Promise((resolve) => setTimeout(resolve, delay))
Waiting(run, delay) == [run EXCEPT !.pc = "waiting", !.waits = Append(@, delay)]

Returned(run, response) ==
    [run EXCEPT !.pc = "done", !.settled = "resolved", !.value = response]

Threw(run, error) ==
    [run EXCEPT !.pc = "done", !.settled = "rejected", !.lastError = error]

\* the try block after `await fetch` gave a response
AfterResponse(run, response) ==
    IF RateLimited(response) /\ RetriesRemain(run.attempt, run.maxRetries)
    THEN Waiting(run, getRetryDelay(response, run.attempt, run.baseDelay))
    ELSE IF ClientError(response.status)
    THEN Returned(run, response)
    ELSE IF Retryable(response.status) /\ RetriesRemain(run.attempt, run.maxRetries)
    THEN Waiting(run, getRetryDelay(response, run.attempt, run.baseDelay))
    ELSE Returned(run, response)

TimedOut == "Request timed out"

\* the catch block, and the throw after the loop when no retry remains
AfterRejection(run, error) ==
    LET lastError == IF error = "AbortError" THEN TimedOut ELSE error IN
    IF RetriesRemain(run.attempt, run.maxRetries)
    THEN Waiting([run EXCEPT !.lastError = lastError],
                 ExponentialBackoff(run.baseDelay, run.attempt))
    ELSE Threw(run, lastError)

\* the part of the state fetchWithRetry does not touch
FetchFrame ==
    /\ UNCHANGED <<wasmVars, requests, workerVars, ip, mainVars, injected, timers,
                   timerSeq, queryInputVars, navLog, dropdownVars, marks, symbolVars,
                   viewVars>>
    /\ callLog' = Null
    /\ event' = NoEvent

\* fetchWithRetry(url, {maxRetries, baseDelay}) up to its first await
fetchWithRetry(maxRetries, baseDelay) ==
    /\ fetchRun.pc = "idle"
    /\ fetchRun' =
          LET run == [fetchRun EXCEPT !.maxRetries = maxRetries, !.baseDelay = baseDelay]
          IN  IF 0 <= maxRetries
              THEN [run EXCEPT !.pc = "fetching", !.calls = 1]
              ELSE Threw(run, "Failed to fetch after attempts")
    /\ FetchFrame

\* the fetch call of the current attempt resolves with a response
FetchResolves(response) ==
    /\ fetchRun.pc = "fetching"
    /\ fetchRun' = AfterResponse([fetchRun EXCEPT !.seen = Append(@, response)], response)
    /\ FetchFrame

\* the fetch call of the current attempt rejects: a network error, or the
\* AbortError that follows controller.abort() when the timeout timer fires
FetchRejects(error) ==
    /\ fetchRun.pc = "fetching"
    /\ fetchRun' = AfterRejection([fetchRun EXCEPT !.seen = Append(@, Rejection(error))],
                                  error)
    /\ FetchFrame

\* the delay before a retry has elapsed: the loop goes on with the next attempt
RetryDelayElapsed ==
    /\ fetchRun.pc = "waiting"
    /\ fetchRun' = [fetchRun EXCEPT !.pc = "fetching", !.attempt = @ + 1, !.calls = @ + 1]
    /\ FetchFrame

\* ------------------------------------------------------------ specifications
\* initWasm called by one caller at a time (as main.js does), terminateWorker,
\* and the events of the worker
Lifecycle ==
    \/ \E maxRetries \in 0..MaxRetryArg : InitWasm("A", maxRetries)
    \/ BackoffDone("A")
    \/ BootTimeout("A")
    \/ terminateWorker
    \/ \E w \in DOMAIN wk : WorkerOnError(w)
    \/ \E w \in DOMAIN wk : WorkerBootOk(w)
    \/ \E w \in DOMAIN wk : WorkerBootFail(w)
    \/ \E w \in DOMAIN wk : WorkerInitAgain(w)
    \/ \E w \in DOMAIN wk : WorkerOnMessage(w)

\* the validation pipeline of main.js over the bridge
Next ==
    \/ Lifecycle
    \/ LiveValidateCalled
    \/ \E c \in {content + 1} \cap 1..MaxEdits : onEditorChange(c)
    \/ ValidationTimerFires

Spec == Init /\ [][Next]_vars

\* the query pipeline of main.js over the bridge
NextQuery ==
    \/ Lifecycle
    \/ \E q \in Queries : runQuery(q)

SpecQuery == Init /\ [][NextQuery]_vars

\* the eight facade functions called directly over the bridge
NextApi ==
    \/ Lifecycle
    \/ \E op \in Ops : ApiCall(op)

SpecApi == Init /\ [][NextApi]_vars

\* the live worker posts a message of the inbound envelope
\* {id?, type: ready|result|error, result?, error?, version?} of any content
WorkerPostsAny ==
    /\ injected < MaxInject
    /\ worker \in alive
    /\ injected' = injected + 1
    /\ \E id \in NoId..messageId, type \in {"ready", "result", "error"} :
          LET m == CASE type = "ready" -> [ReadyMsg(worker, "0.4.1") EXCEPT !.id = id]
                     [] type = "error" -> ErrorMsg(worker, id, "Failed to fetch")
                     [] OTHER -> ResultMsg(worker, id, [kind |-> "any"])
          IN  OnMessage(worker, m) /\ SymbolsResumed(m)
    /\ UNCHANGED <<wk, toWorker, uiVarsButSymbols>>

\* one facade function the worker script knows and one it does not
OpenOps == {"format", "getHoverInfo"}

NextOpen ==
    \/ Lifecycle
    \/ \E op \in OpenOps : ApiCall(op)
    \/ WorkerPostsAny

SpecOpen == Init /\ [][NextOpen]_vars

\* booting alone: initWasm called by two callers that may overlap, its
\* retries and timers, terminateWorker, and the boot events of the workers
NextBoot ==
    \/ \E p \in Procs, maxRetries \in 0..MaxBootRetries : InitWasm(p, maxRetries)
    \/ \E p \in Procs : BackoffDone(p)
    \/ \E p \in Procs : BootTimeout(p)
    \/ terminateWorker
    \/ \E w \in DOMAIN wk : WorkerOnError(w)
    \/ \E w \in DOMAIN wk : WorkerBootOk(w)
    \/ \E w \in DOMAIN wk : WorkerBootFail(w)

SpecBoot == InitBoot /\ [][NextBoot]_vars

\* validation and queries of main.js side by side over the bridge
NextMain ==
    \/ Lifecycle
    \/ LiveValidateCalled
    \/ \E q \in Queries : runQuery(q)

SpecMain == Init /\ [][NextMain]_vars

\* the debounced handlers of the editor and of the query input, over an
\* engine that boots at the first attempt
NextDebounce ==
    \/ InitWasm("A", 0)
    \/ \E w \in DOMAIN wk : WorkerBootOk(w)
    \/ \E w \in DOMAIN wk : WorkerOnMessage(w)
    \/ \E c \in {content + 1} \cap 1..MaxBurst : onEditorChange(c)
    \/ ValidationTimerFires
    \/ \E text \in Queries \cup {""} : timerSeq < MaxTimers /\ ValidateQueryInputCalled(text)
    \/ QueryTimerFires

SpecDebounce == Init /\ [][NextDebounce]_vars

\* queries and the page controls of the result table, over an engine that
\* boots at the first attempt
NextPage ==
    \/ InitWasm("A", 0)
    \/ \E w \in DOMAIN wk : WorkerBootOk(w)
    \/ \E w \in DOMAIN wk : WorkerOnMessage(w)
    \/ \E q \in PageQueries : runQuery(q)
    \/ \E page \in -1..MaxPageArg : goToQueryPage(page)

SpecPage == Init /\ [][NextPage]_vars

\* texts the user can leave in the query input
QueryInputs == {"", "ba", "BALANCES"}

\* the two completion dropdowns side by side: typing, keys, clicks, focus
\* and blur on the editor and on the query input, and the validation that
\* refreshes the known accounts, over an engine that boots at the first attempt
NextDropdown ==
    \/ InitWasm("A", 0)
    \/ \E w \in DOMAIN wk : WorkerBootOk(w)
    \/ \E w \in DOMAIN wk : WorkerOnMessage(w)
    \/ LiveValidateCalled
    \/ \E c \in {content + 1} \cap 1..MaxEdits : onEditorChange(c)
    \/ ValidationTimerFires
    \/ \E w \in EditorWords, startPos \in WordStarts : autocompleteUpdateListener(w, startPos)
    \/ \E key \in Keys : EditorKeydown(key)
    \/ \E index \in 0..(MaxShown - 1) : EditorItemMouseDown(index)
    \/ handleClickOutside
    \/ \E value \in QueryInputs : \E cursorPos \in 0..Len(Chars(value)) :
          timerSeq < MaxUiTimers /\ handleQueryInput(value, cursorPos)
    \/ \E key \in Keys : handleQueryInputKeydown(key)
    \/ QueryInputBlur
    \/ BlurTimerFires
    \/ QueryTimerFires

SpecDropdown == Init /\ [][NextDropdown]_vars

\* validation results and the error highlights of the editor, over an
\* engine that boots at the first attempt
NextErrors ==
    \/ InitWasm("A", 0)
    \/ \E w \in DOMAIN wk : WorkerBootOk(w)
    \/ \E w \in DOMAIN wk : WorkerOnMessage(w)
    \/ LiveValidateCalled
    \/ \E c \in {content + 1} \cap 1..MaxDocs : onEditorChange(c)
    \/ ValidationTimerFires
    \/ AnimationFrame

SpecErrors == Init /\ [][NextErrors]_vars

\* responses a server can give, and the errors fetch can reject with
Responses ==
    {Response(200, "", "", FALSE, 0),
     Response(404, "", "", FALSE, 0),
     Response(403, "", "5", FALSE, 0),
     Response(403, "", "0", FALSE, 0),
     Response(403, "", "0", TRUE, 4000),
     Response(429, "", "", FALSE, 0),
     Response(429, "3", "", FALSE, 0),
     Response(429, "0", "", TRUE, 4000),
     Response(429, "Wed, 21 Oct 2026 07:28:00 GMT", "", FALSE, 0),
     Response(429, "", "", TRUE, -5000),
     Response(429, "", "", TRUE, 90000),
     Response(500, "", "", FALSE, 0),
     Response(503, "3", "", FALSE, 0)}

FetchErrors == {"TypeError: Failed to fetch", "AbortError"}

BaseDelays == {1000, 100}

\* one call of fetchWithRetry against a server that answers in any way
NextFetch ==
    \/ \E maxRetries \in -1..MaxFetchRetries, baseDelay \in BaseDelays :
          fetchWithRetry(maxRetries, baseDelay)
    \/ \E response \in Responses : FetchResolves(response)
    \/ \E error \in FetchErrors : FetchRejects(error)
    \/ RetryDelayElapsed

SpecFetch == Init /\ [][NextFetch]_vars

SymbolSources == {0, 1}

\* the symbols panel over the bridge: the panel is initialised, updated and
\* cleared in any order while the engine boots and answers; the worker
\* script at hand has no case for getDocumentSymbols, one that has is
\* covered by the worker that posts any message
NextSymbols ==
    \/ InitWasm("A", 0)
    \/ \E w \in DOMAIN wk : WorkerBootOk(w)
    \/ \E w \in DOMAIN wk : WorkerOnMessage(w)
    \/ \E source \in SymbolSources : initSymbolsPanel(source)
    \/ \E source \in SymbolSources : UpdateSymbolsCalled(source)
    \/ clearSymbolsPanel
    \/ SymbolsTimerFires
    \/ WorkerPostsAny

SpecSymbols == Init /\ [][NextSymbols]_vars

\* the pointer moves over the lines of the editor while validations are
\* applied and highlighted
NextTooltip ==
    \/ NextErrors
    \/ \E l \in 1..LineCount(content) : mouseover(l)
    \/ \E l \in 1..MaxLines : mouseout(l)

SpecTooltip == Init /\ [][NextTooltip]_vars

\* the segments account texts are made of, as characters
Segments == {<<"A">>, <<"B", "k">>}

RECURSIVE JoinColon(_)
JoinColon(parts) ==
    IF Len(parts) = 1 THEN parts[1]
    ELSE parts[1] \o <<":">> \o JoinColon(Tail(parts))

\* account texts of 1..MaxSegments segments
AccountTexts ==
    {JoinColon(parts) : parts \in UNION {[1..k -> Segments] : k \in 1..MaxSegments}}

\* the colouring functions applied to account texts
NextColors ==
    \/ \E account \in AccountTexts : formatAccount(account)
    \/ \E text \in AccountTexts, accountStart \in {0, 7} :
          buildDecorations(text, accountStart)

SpecColors == Init /\ [][NextColors]_vars

\* the fetch call of the current attempt settles, one way or the other
FetchSettles ==
    \/ \E response \in Responses : FetchResolves(response)
    \/ \E error \in FetchErrors : FetchRejects(error)

\* the same, where every fetch call settles (the timeout timer aborts it at
\* the latest) and every delay elapses
SpecFetchFair ==
    /\ SpecFetch
    /\ WF_vars(FetchSettles)
    /\ WF_vars(RetryDelayElapsed)

\* ==================================================================== claims
Ids(caller) == {requests[k].id : k \in {j \in 1..Len(requests) : requests[j].caller = caller}}

Max(S) == CHOOSE x \in S : \A y \in S : y <= x

\* the request of the most recently initiated liveValidate / runQuery
LatestId(caller) == IF Ids(caller) = {} THEN NoId ELSE Max(Ids(caller))

\* C1: among overlapping validations only the result of the most recently
\* initiated one is ever applied to the UI (status tab, output panel, error
\* lines, known accounts); an earlier one's response changes nothing.
C1_OnlyLatestValidationApplied ==
    [][validationUI' # validationUI =>
          appliedValidation' = LatestId("liveValidate")]_vars

\* C2: of two overlapping queries only the later one's result is ever
\* rendered in the query output and stored as the current paginated result.
C2_OnlyLatestQueryRendered ==
    [][queryUI' # queryUI => queryOutput'.from = LatestId("runQuery")]_vars

Unsettled == {k \in 1..Len(requests) : requests[k].st = "pending"}

\* C3: terminateWorker() called while engine calls are pending settles every
\* one of them (by rejection): none stays unsettled after it.
C3_TerminateSettlesPending ==
    [][(worker # NoWorker /\ terminateWorker) => Unsettled' = {}]_vars

\* C4: every engine operation invoked while the engine is not ready (the
\* ready flag is off, or there is no worker: before boot, after a failed
\* boot, after terminateWorker) returns null, posts nothing to the worker
\* and creates no pending-table entry.
C4_NotReadyReturnsNull ==
    [][\A op \in Ops :
          ((~wasmReady \/ worker = NoWorker) /\ ApiCall(op)) =>
              /\ callLog' = "returned null"
              /\ UNCHANGED <<messageId, pendingRequests, requests, toWorker>>]_vars

\* a facade call made while a worker is booting returned null
C4_Witness ==
    /\ callLog = "returned null"
    /\ ~wasmReady
    /\ worker \in alive
    /\ requests = << >>

EntryOf(k) == [id |-> requests[k].id, k |-> k]

\* C5: a pending-table entry exists exactly while its request is in flight
\* to the current worker: created by send, removed by the matching response
\* or by teardown of the worker it was sent to.
C5_EntryIffInFlight ==
    \A k \in 1..Len(requests) :
        EntryOf(k) \in pendingRequests <=>
            (requests[k].st = "pending" /\ requests[k].w \in alive)

IsResponse(m) == m # NoEvent /\ m.type # "ready" /\ ~(m.type = "error" /\ m.id = NoId)

\* C6: a response with ID i that finds an entry for i removes the entry and
\* settles its promise exactly once, resolved with the carried result for
\* 'result', rejected with the carried error for 'error'; no request is
\* ever settled twice, a second response with the same ID has no effect.
C6_ResponseSettlesOnce ==
    /\ [](\A k \in 1..Len(requests) : requests[k].settles <= 1)
    /\ [][(IsResponse(event') /\ MapHas(pendingRequests, event'.id)) =>
            LET k == MapGet(pendingRequests, event'.id) IN
            /\ ~MapHas(pendingRequests', event'.id)
            /\ requests'[k].settles = 1
            /\ requests'[k].st = IF event'.type = "error" THEN "rejected" ELSE "resolved"
            /\ requests'[k].value = IF event'.type = "error"
                                    THEN [kind |-> "error", error |-> event'.error]
                                    ELSE event'.result
            /\ \A j \in 1..Len(requests) : j # k => requests'[j] = requests[j]]_vars

\* a request was rejected by an 'error' response, and a second response
\* with its ID was handled afterwards
C6_Witness ==
    /\ IsResponse(event)
    /\ \E k \in 1..Len(requests) :
          /\ requests[k].id = event.id
          /\ requests[k].st = "rejected"
          /\ requests[k].value.error = "Unknown action"
          /\ event.type = "result"

\* C7: every send gets a correlation ID no earlier send received, also
\* across worker termination and recreation; the pending table never holds
\* two requests under one ID, and an entry belongs to the request that was
\* sent with its ID.
C7_FreshIds ==
    /\ \A j, k \in 1..Len(requests) : j # k => requests[j].id # requests[k].id
    /\ \A k \in 1..Len(requests) : requests[k].id < messageId
    /\ \A e \in pendingRequests : e.k \in 1..Len(requests) /\ requests[e.k].id = e.id
    /\ \A e, f \in pendingRequests : e.id = f.id => e = f

\* two requests, sent to different workers, are both in the pending table
C7_Witness ==
    /\ Len(requests) = 2
    /\ requests[1].w # requests[2].w
    /\ Cardinality(pendingRequests) = 2

\* C8: a response whose ID has no entry in the pending table is dropped:
\* the table, the ready flag, the boot-error string and the version are
\* unchanged and no promise is settled.
C8_UnmatchedResponseDropped ==
    [][(IsResponse(event') /\ ~MapHas(pendingRequests, event'.id)) =>
          UNCHANGED <<pendingRequests, wasmReady, wasmError, wasmVersion, requests,
                      validationUI, queryUI>>]_vars

\* an 'error' response with an ID that was never sent was handled while a
\* request was pending
C8_Witness ==
    /\ IsResponse(event)
    /\ event.type = "error"
    /\ event.id # NoId
    /\ \A k \in 1..Len(requests) : requests[k].id # event.id
    /\ pendingRequests # {}

IsLifecycle(m) == m # NoEvent /\ (m.type = "ready" \/ (m.type = "error" /\ m.id = NoId))

\* C9: a 'ready' message, or an 'error' message without ID, changes only
\* worker-lifecycle state: it never removes or settles a pending entry.
C9_LifecycleLeavesPending ==
    [][IsLifecycle(event') =>
          UNCHANGED <<pendingRequests, requests, messageId, worker, toWorker,
                      validationUI, queryUI>>]_vars

\* a 'ready' message carrying the ID of a pending request was handled
C9_Witness ==
    /\ IsLifecycle(event)
    /\ event.type = "ready"
    /\ MapHas(pendingRequests, event.id)

UnsupportedMsg == "Your browser may not support WebAssembly"

\* C10: a boot attempt that fails with the compile / unsupported-runtime
\* error makes initWasm reject at once with that user-facing message: no
\* backoff delay is waited for it and the call constructs no further worker,
\* whatever retry budget remains.
C10_CompileErrorNotRetried ==
    /\ [](\A p \in Procs :
            ip[p].lastError = UnsupportedMsg =>
                /\ ip[p].pc = "rejected"
                /\ Len(ip[p].delays) = ip[p].attempt)
    /\ [][\A p \in Procs :
            (ip[p].lastError = UnsupportedMsg /\ created' # created) =>
                (ip'[p].attempt = 0 /\ ip'[p].lastError # UnsupportedMsg)]_vars

\* initWasm rejected on its first attempt with a retry left
C10_Witness ==
    /\ ip["A"].pc = "rejected"
    /\ ip["A"].lastError = UnsupportedMsg
    /\ ip["A"].attempt < ip["A"].maxRetries
    /\ wasmError = "CompileError: bad magic"

\* C11: with errors that are retried (network error, worker error, the 30 s
\* timeout) initWasm makes at most maxRetries+1 attempts, waits
\* baseDelay*2^k after failed attempt k < maxRetries, tears down the previous
\* worker before it constructs the next, rejects after the last failed
\* attempt with that attempt's error and without a further wait, and resolves
\* as soon as its pending attempt receives 'ready'.
C11_RetryWithBackoff ==
    /\ [](\A p \in Procs :
            /\ ip[p].attempt <= ip[p].maxRetries
            /\ Len(ip[p].delays) =
                  IF ip[p].pc = "backoff" THEN ip[p].attempt + 1 ELSE ip[p].attempt
            /\ \A k \in 1..Len(ip[p].delays) :
                  ip[p].delays[k] = WASM_BASE_DELAY * (2 ^ (k - 1)))
    /\ [][\A p \in Procs :
            /\ (ip[p].pc = "awaiting" /\ ip'[p].pc \in {"backoff", "rejected"}) =>
                  /\ ip'[p].lastError =
                        IF BootTimeout(p) THEN TimeoutMsg
                        ELSE IF event' # NoEvent THEN formatWasmError(event'.error)
                        ELSE formatWasmError(wasmError')
                  /\ ip'[p].attempt = ip[p].attempt
                  /\ ~NonRetryable(ip'[p].lastError) =>
                        (ip'[p].pc = "rejected" <=> ip[p].attempt = ip[p].maxRetries)
            /\ (ip[p].pc = "backoff" /\ ip'[p] # ip[p]) =>
                  /\ ip'[p].attempt = ip[p].attempt + 1
                  /\ worker # NoWorker => worker \notin alive'
            /\ (ip[p].pc = "awaiting" /\ event'.type = "ready" /\ event'.w = ip[p].w) =>
                  ip'[p].pc = "resolved"]_vars

\* a call with two retries was rejected by the timeout of its third attempt,
\* after waiting 1000 and 2000
C11_Witness ==
    /\ ip["A"].pc = "rejected"
    /\ ip["A"].maxRetries = 2
    /\ ip["A"].attempt = 2
    /\ ip["A"].lastError = TimeoutMsg
    /\ ip["A"].delays = <<WASM_BASE_DELAY, 2 * WASM_BASE_DELAY>>
    /\ created = 3

\* C12: at every moment at most one non-terminated worker exists (and it is
\* the one the module's handle refers to), across initWasm, its retries,
\* overlapping initWasm calls and terminateWorker.
C12_AtMostOneWorker ==
    /\ Cardinality(alive) <= 1
    /\ alive \subseteq {worker}

\* two overlapping initWasm calls: the worker the first one still waits for
\* was terminated by the second, whose worker is the only live one
C12_Witness ==
    /\ ip["A"].pc = "awaiting"
    /\ ip["B"].pc = "awaiting"
    /\ ip["A"].w \notin alive
    /\ alive = {ip["B"].w}
    /\ created = 3

\* the request a response handled in this step settles (0: none)
SettledBy(m) ==
    IF IsResponse(m) /\ MapHas(pendingRequests, m.id)
    THEN MapGet(pendingRequests, m.id) ELSE 0

\* C13: a validation or query call that yields null (engine not ready, or
\* the request was rejected) is an operation skipped: liveValidate leaves
\* error lines, status tab, output panel and known accounts as they are,
\* runQuery leaves the query output and the stored result as they are.
C13_NullIsSkipped ==
    [][/\ (~wasmReady /\ (LiveValidateCalled \/ \E q \in Queries : runQuery(q))) =>
             UNCHANGED <<validationUI, queryUI>>
       /\ callLog' = "returned null" => UNCHANGED <<validationUI, queryUI>>
       /\ (SettledBy(event') # 0 /\ event'.type = "error") =>
             UNCHANGED <<validationUI, queryUI>>]_vars

\* a validateSource request of liveValidate was rejected by the worker's
\* 'error' response
C13_Witness ==
    /\ IsResponse(event)
    /\ event.type = "error"
    /\ \E k \in 1..Len(requests) :
          /\ requests[k].id = event.id
          /\ requests[k].caller = "liveValidate"
          /\ requests[k].st = "rejected"

Pending(of) == {t \in timers : t.of = of}

TimerIds == {t.id : t \in timers}

\* validateQueryInput was called in this step
QueryInputEvent == \E text \in Queries \cup {""} : ValidateQueryInputCalled(text)

\* C14 (as stated): every input event cancels the pending debounce timer and
\* arms a new one, so that after every event, of the editor or of the query
\* input, exactly one timer of its kind is pending, armed by that event.
C14_EveryInputArms ==
    [][/\ (content' # content) =>
             \E t \in timers' : Pending("edit")' = {t} /\ t.id \notin TimerIds
       /\ QueryInputEvent =>
             \E t \in timers' : Pending("query")' = {t} /\ t.id \notin TimerIds]_vars

\* C14 (amended): at most one editor timer and at most one query timer is
\* pending at any time, and a pending timer is the one the last event of
\* its kind armed. Every editor change cancels the pending editor timer and
\* arms a new one; a validateQueryInput call cancels the pending query timer
\* and arms a new one when the text is not empty, and arms none (clearing
\* the tint at once) when the text is empty.
C14_DebounceReset ==
    /\ [](/\ Cardinality(Pending("edit")) <= 1
          /\ Cardinality(Pending("query")) <= 1
          /\ \A t \in Pending("edit") : t.id = liveValidationTimeout /\ t.gen = content
          /\ \A t \in Pending("query") :
                t.id = queryValidationTimeout /\ t.q = queryText /\ t.q # "")
    /\ [][/\ (content' # content) =>
                \E t \in timers' : Pending("edit")' = {t} /\ t.id \notin TimerIds
          /\ (QueryInputEvent /\ queryText' # "") =>
                \E t \in timers' : Pending("query")' = {t} /\ t.id \notin TimerIds
          /\ (QueryInputEvent /\ queryText' = "") =>
                Pending("query")' = {} /\ queryTint' = ""]_vars

\* a burst: two editor changes and two query inputs were made before any
\* timer fired, and one timer of each kind is pending
C14_Witness ==
    /\ content = 2
    /\ timerSeq = 4
    /\ Cardinality(Pending("edit")) = 1
    /\ Cardinality(Pending("query")) = 1
    /\ queryText = "BAD"

\* C15: goToQueryPage(p) with p < 0 or p >= ceil(rowCount/100), or with no
\* stored result, renders nothing: the displayed page and the stored result
\* are unchanged.
C15_OutOfRangeIsNoop ==
    [][\A page \in -1..MaxPageArg :
          (/\ goToQueryPage(page)
           /\ \/ currentQueryResult = NoQueryResult
              \/ page < 0
              \/ page * QUERY_PAGE_SIZE >= currentQueryResult.rows) =>
          /\ UNCHANGED <<queryOutput, currentQueryResult>>
          /\ ~navLog'.rendered]_vars

\* page 3 was asked for while page 2, the last of 3, was shown
C15_Witness ==
    /\ navLog = [page |-> 3, rendered |-> FALSE, called |-> TRUE]
    /\ currentQueryResult.rows = 250
    /\ queryOutput.kind = "table"
    /\ queryOutput.page = 2

\* C16: for a stored result of N > 0 rows, rendering page p with
\* 0 <= p < ceil(N/100) displays exactly rows p*100+1 .. min((p+1)*100, N)
\* in their order, and the page count is ceil(N/100): 250 rows give 3
\* pages, page 0 with rows 1-100 and page 2 with rows 201-250.
C16_PageShowsItsRows ==
    queryOutput.kind = "table" =>
        LET N == currentQueryResult.rows
            p == queryOutput.page
        IN /\ N > 0
           /\ queryOutput.first = p * 100 + 1
           /\ queryOutput.last = (IF (p + 1) * 100 <= N THEN (p + 1) * 100 ELSE N)
           /\ queryOutput.first <= queryOutput.last
           /\ queryOutput.pages * 100 >= N
           /\ (queryOutput.pages - 1) * 100 < N
           /\ (N = 250 => queryOutput.pages = 3)
           /\ (N = 250 /\ p = 0 => queryOutput.first = 1 /\ queryOutput.last = 100)
           /\ (N = 250 /\ p = 2 => queryOutput.first = 201 /\ queryOutput.last = 250)

\* page 2 of a result of 250 rows is shown, reached by goToQueryPage(2)
C16_Witness ==
    /\ queryOutput.kind = "table"
    /\ currentQueryResult.rows = 250
    /\ queryOutput.page = 2
    /\ queryOutput.last = 250
    /\ navLog.rendered

\* C17: whenever a result table is displayed, its page index p satisfies
\* 0 <= p < ceil(rowCount/100) for the stored result; every newly accepted
\* non-empty result is displayed at page 0, whatever page was shown before.
C17_PageWithinBounds ==
    /\ [](queryOutput.kind = "table" =>
            /\ currentQueryResult # NoQueryResult
            /\ queryOutput.from = currentQueryResult.from
            /\ 0 <= queryOutput.page
            /\ queryOutput.page * QUERY_PAGE_SIZE < currentQueryResult.rows)
    /\ [][(currentQueryResult' # currentQueryResult /\ currentQueryResult' # NoQueryResult) =>
            (queryOutput'.kind = "table" /\ queryOutput'.page = 0)]_vars

\* a result of 101 rows replaced one of 250 rows that was shown at page 2
C17_Witness ==
    /\ queryOutput.kind = "table"
    /\ queryOutput.page = 0
    /\ currentQueryResult.rows = 101
    /\ navLog = [page |-> 2, rendered |-> TRUE, called |-> TRUE]
    /\ Len(requests) = 2
    /\ requests[1].q = "LIMIT 250"


\* where the claim puts the selection after an arrow key, from index i of n
\* items
AfterArrowDown(i, n) == IF i = -1 THEN 0 ELSE (i + 1) % n

AfterArrowUp(i, n) == IF i = -1 THEN n - 1 ELSE (i - 1) % n

\* C18: while a completion dropdown is open with n >= 1 items, ArrowDown
\* sets selectedIndex to (i+1) mod n (to 0 from -1) and ArrowUp sets it to
\* (i-1) mod n (to n-1 from 0 or from -1); arrow keys leave the item list and
\* the dropdown as they are, and -1 <= selectedIndex < n holds in every
\* reachable state, for the dropdown of the editor and for that of the
\* query input.
C18_ArrowKeysCircular ==
    /\ [](/\ -1 <= accountAutocomplete.selectedIndex
          /\ accountAutocomplete.selectedIndex < Len(accountAutocomplete.items)
          /\ -1 <= autocompleteSelectedIndex
          /\ autocompleteSelectedIndex < Len(autocompleteItems))
    /\ [][/\ (~accountAutocomplete.hidden /\ EditorKeydown("ArrowDown")) =>
                accountAutocomplete' =
                    [accountAutocomplete EXCEPT !.selectedIndex =
                        AfterArrowDown(@, Len(accountAutocomplete.items))]
          /\ (~accountAutocomplete.hidden /\ EditorKeydown("ArrowUp")) =>
                accountAutocomplete' =
                    [accountAutocomplete EXCEPT !.selectedIndex =
                        AfterArrowUp(@, Len(accountAutocomplete.items))]
          /\ (~autocompleteHidden /\ handleQueryInputKeydown("ArrowDown")) =>
                /\ autocompleteSelectedIndex' =
                      AfterArrowDown(autocompleteSelectedIndex, Len(autocompleteItems))
                /\ UNCHANGED <<autocompleteHidden, autocompleteItems, autocompleteContext>>
          /\ (~autocompleteHidden /\ handleQueryInputKeydown("ArrowUp")) =>
                /\ autocompleteSelectedIndex' =
                      AfterArrowUp(autocompleteSelectedIndex, Len(autocompleteItems))
                /\ UNCHANGED <<autocompleteHidden, autocompleteItems, autocompleteContext>>]_vars

\* the dropdown of the editor is open with two accounts and the second is
\* selected: showAccountAutocomplete selects the first, so an arrow key
\* moved the selection
C18_Witness ==
    /\ ~accountAutocomplete.hidden
    /\ Len(accountAutocomplete.items) = 2
    /\ accountAutocomplete.selectedIndex = 1


\* the known accounts that word w selects, and the completions of the engine
\* that the token before the cursor selects
AccountCandidates(w) ==
    SelectSeq(ArrayFrom(knownAccounts), LAMBDA a : LowerIncludes(a, w))

QueryCandidates(value, cursorPos) ==
    LET token == substring(Chars(value), TokenStart(Chars(value), cursorPos), cursorPos)
    IN  SelectSeq(EngineCompletions(value),
                  LAMBDA c : startsWith(toLowerCase(Chars(c)), toLowerCase(token)))

\* C20: a dropdown opens, or stays open after a re-filter, only when the
\* filtered candidate list is not empty: in every reachable state a visible
\* dropdown has a non-empty item list and a remembered token context, and a
\* keystroke whose filter matches no candidate leaves the dropdown closed.
C20_OpenOnlyWithCandidates ==
    /\ [](/\ ~accountAutocomplete.hidden =>
                accountAutocomplete.active /\ Len(accountAutocomplete.items) >= 1
          /\ ~autocompleteHidden =>
                Len(autocompleteItems) >= 1 /\ autocompleteContext # NoContext)
    /\ [][/\ (currentWord'.n = currentWord.n + 1
                /\ Len(AccountCandidates(currentWord'.text)) = 0) =>
                accountAutocomplete'.hidden
          /\ \A value \in QueryInputs : \A cursorPos \in 0..Len(Chars(value)) :
                (handleQueryInput(value, cursorPos)
                   /\ Len(QueryCandidates(value, cursorPos)) = 0) =>
                autocompleteHidden']_vars


AcceptedResult ==
    requests[CHOOSE k \in DOMAIN requests :
                requests[k].id = appliedValidation /\ requests[k].caller = "liveValidate"].value

Referenced(result) == {result.errors[i].line : i \in DOMAIN result.errors}

\* the animation-frame callbacks queued by highlightErrorLines have all run
\* in this step
HighlightsSettle == frames # << >> /\ frames' = << >>

C24_ReplacedWholesale ==
    /\ [](appliedValidation # NoId =>
            /\ errorLines = Referenced(AcceptedResult) \ {0}
            /\ {m.line : m \in errorMessages} = errorLines
            /\ Cardinality(errorMessages) = Cardinality(errorLines)
            /\ \A m \in errorMessages : \E i \in DOMAIN AcceptedResult.errors :
                  /\ AcceptedResult.errors[i].line = m.line
                  /\ AcceptedResult.errors[i].message = m.message
            /\ AcceptedResult.valid => errorLines = {} /\ errorMessages = {})
    /\ [][(HighlightsSettle /\ appliedValidation # NoId) =>
            /\ {m.line : m \in marks'} \subseteq Referenced(AcceptedResult)
            /\ marks' \subseteq errorMessages
            /\ AcceptedResult.valid => marks' = {}]_vars

\* the result for source 1 (lines 2 and 5) was accepted and then the result
\* for source 3 (lines 2 and 9): line 5 and the first message of line 2 are
\* gone
C24_Witness ==
    /\ Len(requests) = 2
    /\ requests[1].caller = "liveValidate" /\ requests[1].src = 1
    /\ requests[1].st = "resolved"
    /\ requests[2].caller = "liveValidate" /\ requests[2].src = 3
    /\ appliedValidation = requests[2].id
    /\ errorLines = {2, 9}
    /\ errorMessages = {[line |-> 2, message |-> "second"],
                        [line |-> 9, message |-> "beyond"]}
    /\ frames = << >>
    /\ marks = {[line |-> 2, message |-> "second"]}


\* ---------------------------------------------------------------- C25
\* a 5xx or 429 response that carries no Retry-After and no rate-limit header
PlainServerError(r) ==
    /\ r.error = ""
    /\ (r.status >= 500 \/ r.status = 429)
    /\ r.retryAfter = "" /\ r.remaining = "" /\ ~r.hasReset

\* C25: when the fetch calls so far saw k consecutive 5xx or 429 responses
\* without rate-limit headers (k <= maxRetries) and then a 200, fetchWithRetry
\* has issued exactly k+1 fetch calls, has waited baseDelay*2^i before retry i
\* (i = 0..k-1), and has returned the 200 response.
C25_BackoffThenSuccess ==
    LET seen == fetchRun.seen
        k == Len(seen) - 1 IN
    ( /\ Len(seen) >= 1
      /\ k <= fetchRun.maxRetries
      /\ \A i \in 1..k : PlainServerError(seen[i])
      /\ seen[k + 1].error = "" /\ seen[k + 1].status = 200 )
    => /\ fetchRun.calls = k + 1
       /\ fetchRun.waits = [i \in 1..k |-> fetchRun.baseDelay * (2 ^ (i - 1))]
       /\ fetchRun.pc = "done"
       /\ fetchRun.settled = "resolved"
       /\ fetchRun.value = seen[k + 1]

\* three server errors, each retried, and then the 200
C25_Witness ==
    /\ fetchRun.pc = "done"
    /\ Len(fetchRun.seen) = 4
    /\ \A i \in 1..3 : PlainServerError(fetchRun.seen[i])
    /\ fetchRun.seen[1].status = 500
    /\ fetchRun.seen[4].status = 200
    /\ fetchRun.calls = 4
    /\ fetchRun.waits = <<fetchRun.baseDelay, 2 * fetchRun.baseDelay, 4 * fetchRun.baseDelay>>


\* ---------------------------------------------------------------- C26
\* a response with a 4xx status other than 429
IsClientError(r) == r.error = "" /\ r.status >= 400 /\ r.status < 500 /\ r.status # 429

\* the i-th fetch call was the last one: its response was returned and no
\* delay was awaited after it
ReturnedAtOnce(i) ==
    /\ i = Len(fetchRun.seen)
    /\ fetchRun.calls = i
    /\ Len(fetchRun.waits) = i - 1
    /\ fetchRun.pc = "done"
    /\ fetchRun.settled = "resolved"
    /\ fetchRun.value = fetchRun.seen[i]

\* a 403 that says the rate limit is used up, seen while retries remain
RateLimit403(i) ==
    /\ fetchRun.seen[i].status = 403
    /\ fetchRun.seen[i].remaining = "0"
    /\ i - 1 < fetchRun.maxRetries

\* C26 as stated: every response with a 4xx status other than 429 is returned
\* after the one fetch call that got it, with no delay and no retry.
C26_ClientErrorNeverRetried ==
    \A i \in 1..Len(fetchRun.seen) :
        IsClientError(fetchRun.seen[i]) => ReturnedAtOnce(i)

\* C26: a response with a 4xx status other than 429 is returned after the one
\* fetch call that got it, with no delay and no retry, unless it is a 403 with
\* X-RateLimit-Remaining: 0 seen while retries remain.
C26_ClientErrorNotRetried ==
    \A i \in 1..Len(fetchRun.seen) :
        (IsClientError(fetchRun.seen[i]) /\ ~RateLimit403(i)) => ReturnedAtOnce(i)

\* a 403 whose rate limit is not used up is returned after one call
C26_Witness ==
    /\ Len(fetchRun.seen) = 1
    /\ fetchRun.maxRetries > 0
    /\ fetchRun.seen[1].status = 403
    /\ fetchRun.seen[1].remaining = "5"
    /\ ReturnedAtOnce(1)
    /\ fetchRun.waits = << >>


\* ---------------------------------------------------------------- C27
\* the delay fetchWithRetry takes after a 429 with the headers of response r
DelayAsFor429(r, attempt) ==
    getRetryDelay([r EXCEPT !.status = 429], attempt, fetchRun.baseDelay)

\* C27: a 403 response with X-RateLimit-Remaining: 0 that arrives while
\* retries remain is followed by the delay a 429 would get and by another
\* fetch call, and a 200 that answers that call is returned.
C27_RateLimit403Retried ==
    \A i \in 1..Len(fetchRun.seen) :
        RateLimit403(i) =>
            /\ Len(fetchRun.waits) >= i
            /\ fetchRun.waits[i] = DelayAsFor429(fetchRun.seen[i], i - 1)
            /\ \/ fetchRun.pc = "waiting" /\ fetchRun.calls = i
               \/ fetchRun.calls >= i + 1
            /\ (Len(fetchRun.seen) > i /\ fetchRun.seen[i + 1].status = 200)
                  => /\ fetchRun.pc = "done"
                     /\ fetchRun.settled = "resolved"
                     /\ fetchRun.value = fetchRun.seen[i + 1]

\* a rate-limit 403, the wait, a second call answered by 200, returned
C27_Witness ==
    /\ Len(fetchRun.seen) = 2
    /\ RateLimit403(1)
    /\ ~fetchRun.seen[1].hasReset
    /\ fetchRun.waits = <<fetchRun.baseDelay>>
    /\ fetchRun.calls = 2
    /\ fetchRun.settled = "resolved"
    /\ fetchRun.value.status = 200


\* ---------------------------------------------------------------- C28
\* every fetch call so far failed with a network error or a timeout
AllFailed == \A i \in 1..Len(fetchRun.seen) : fetchRun.seen[i].error # ""

\* the error fetchWithRetry keeps for a failed call
ErrorKept(r) == IF r.error = "AbortError" THEN TimedOut ELSE r.error

\* what holds of the number of calls and of the outcome in every state
SettlesWithinBudget ==
    LET seen == fetchRun.seen
        budget == fetchRun.maxRetries + 1 IN
    /\ fetchRun.calls <= budget
    /\ Len(seen) <= fetchRun.calls
    /\ (AllFailed /\ (fetchRun.pc = "done" \/ Len(seen) = budget))
          => /\ fetchRun.pc = "done"
             /\ fetchRun.settled = "rejected"
             /\ fetchRun.calls = budget
             /\ Len(seen) > 0 => fetchRun.lastError = ErrorKept(seen[Len(seen)])
    /\ (Len(seen) > 0 /\ Len(seen) = budget /\ seen[Len(seen)].error = "")
          => /\ fetchRun.pc = "done"
             /\ fetchRun.settled = "resolved"
             /\ fetchRun.value = seen[Len(seen)]

\* C28: a call of fetchWithRetry settles, and never makes more than
\* maxRetries+1 fetch calls; when every call failed it rejects with the last
\* error after exactly maxRetries+1 calls, and when the last allowed call gets
\* a response, of whatever status, it resolves with that response.
C28_AlwaysSettles ==
    /\ []SettlesWithinBudget
    /\ (fetchRun.pc # "idle") ~> (fetchRun.pc = "done")

\* four failed calls with maxRetries = 3, the last one a timeout
C28_Witness ==
    /\ fetchRun.pc = "done"
    /\ fetchRun.maxRetries = 3
    /\ fetchRun.calls = 4
    /\ Len(fetchRun.seen) = 4
    /\ AllFailed
    /\ fetchRun.seen[4].error = "AbortError"
    /\ fetchRun.settled = "rejected"
    /\ fetchRun.lastError = TimedOut


\* ---------------------------------------------------------------- C29
\* the Retry-After header of r is a number of seconds
HasRetryAfterSeconds(r) == r.error = "" /\ r.retryAfter \in {"0", "3"}

RetryAfterSeconds(r) == IF r.retryAfter = "3" THEN 3 ELSE 0

\* the X-RateLimit-Reset header of r names a moment still ahead
HasResetAhead(r) == r.error = "" /\ r.hasReset /\ r.resetIn > 0

\* C29: the wait after a retried response with a Retry-After of s seconds is
\* s*1000 ms, whatever the attempt number; the wait is the computed
\* baseDelay*2^attempt exactly when the retried call brought neither a usable
\* Retry-After nor an X-RateLimit-Reset that is still ahead.
C29_ServerDelayPreferred ==
    \A i \in 1..Len(fetchRun.waits) :
        LET r == fetchRun.seen[i]
            computed == fetchRun.baseDelay * (2 ^ (i - 1)) IN
        /\ HasRetryAfterSeconds(r) => fetchRun.waits[i] = RetryAfterSeconds(r) * 1000
        /\ fetchRun.waits[i] = computed <=> ~HasRetryAfterSeconds(r) /\ ~HasResetAhead(r)

\* a plain 500 waited for with the computed delay, then on the second attempt
\* a response with Retry-After: 3 waited for 3000 ms
C29_Witness ==
    /\ Len(fetchRun.waits) >= 2
    /\ PlainServerError(fetchRun.seen[1])
    /\ fetchRun.waits[1] = fetchRun.baseDelay
    /\ fetchRun.seen[2].retryAfter = "3"
    /\ fetchRun.waits[2] = 3000
    /\ fetchRun.waits[2] # 2 * fetchRun.baseDelay


\* ---------------------------------------------------------------- C30
\* this step writes the outcome of getDocumentSymbols to the symbols panel
ResponseApplied == container' # container /\ container'.text \in {"symbols", "unable"}

\* C30: no step decreases or resets symbolsVersion, no two invocations of
\* updateSymbols captured the same version, and a step applies the response
\* of an invocation only if no invocation of updateSymbols started after it.
C30_VersionMonotonic ==
    [][ /\ symbolsVersion' >= symbolsVersion
        /\ \A i, j \in 1..Len(captured') : i # j => captured'[i] # captured'[j]
        /\ ResponseApplied => container'.call = Len(captured') ]_vars


\* ---------------------------------------------------------------- C31
\* the number of colon-separated segments of the text last colourised
SegmentCount == Cardinality({j \in 1..Len(colorRun.text) : colorRun.text[j] = ":"}) + 1

\* the palette and the muted colour of the function that ran
PaletteUsed == IF colorRun.by = "formatAccount" THEN colors ELSE accountColors

MutedUsed == IF colorRun.by = "formatAccount" THEN separatorClass ELSE colonColor

\* C31: after an account text of k segments is colourised (by formatAccount,
\* or by the editor's decorations when k >= 2), the pieces are segment, colon,
\* segment, ..., segment; segment i (0-based) has palette entry min(i, 4) and
\* every colon the muted colour; the five palette colours and the muted one
\* are pairwise distinct; the editor's ranges lie end to end over the text.
C31_SegmentColors ==
    LET k == SegmentCount
        pieces == colorRun.pieces IN
    (colorRun.by = "formatAccount" \/ (colorRun.by = "buildDecorations" /\ k >= 2))
    => /\ Len(pieces) = 2 * k - 1
       /\ \A i \in 0..(k - 1) :
             /\ pieces[2 * i + 1].kind = "part"
             /\ pieces[2 * i + 1].color = PaletteUsed[IF i < 4 THEN i + 1 ELSE 5]
       /\ \A i \in 1..(k - 1) :
             /\ pieces[2 * i].kind = "colon"
             /\ pieces[2 * i].color = MutedUsed
       /\ Len(PaletteUsed) = 5
       /\ \A a, b \in 1..5 : a # b => PaletteUsed[a] # PaletteUsed[b]
       /\ \A a \in 1..5 : PaletteUsed[a] # MutedUsed
       /\ colorRun.by = "buildDecorations" =>
             /\ pieces[1].from = colorRun.start
             /\ pieces[Len(pieces)].to = colorRun.start + Len(colorRun.text)
             /\ \A n \in 1..(Len(pieces) - 1) : pieces[n].to = pieces[n + 1].from
             /\ \A n \in 1..Len(pieces) :
                   SubSeq(colorRun.text, pieces[n].from - colorRun.start + 1,
                          pieces[n].to - colorRun.start) = pieces[n].text

\* an account of six segments decorated in the editor: three distinct colours
\* on the first three segments, the muted colour on the colons, and the last
\* palette colour on segments 4 and 5
C31_Witness ==
    /\ colorRun.by = "buildDecorations"
    /\ SegmentCount = 6
    /\ Len(colorRun.pieces) = 11
    /\ colorRun.pieces[1].color = "#22d3ee"
    /\ colorRun.pieces[3].color = "#5eead4"
    /\ colorRun.pieces[5].color = "#6ee7b7"
    /\ colorRun.pieces[2].color = "rgba(255, 255, 255, 0.5)"
    /\ colorRun.pieces[4].color = "rgba(255, 255, 255, 0.5)"
    /\ colorRun.pieces[9].color = "#fdba74"
    /\ colorRun.pieces[11].color = "#fdba74"


\* ---------------------------------------------------------------- C32
\* C32: when the pointer leaves an error line while its tooltip is shown, the
\* tooltip is not removed in that step (it only starts to fade), so the
\* pointer's way from one error line to another passes through no state
\* without a tooltip.
C32_ExitKeepsTooltip ==
    [][(pointer # 0 /\ pointer' = 0 /\ IsErrorLine(pointer) /\ tooltip # NoTooltip)
          => tooltip' # NoTooltip]_vars


\* ---------------------------------------------------------------- C33
\* request k, sent by updateSymbols, is settled in this step
SymbolsRequestSettles(k) ==
    /\ requests[k].caller = "updateSymbols"
    /\ requests[k].st = "pending"
    /\ requests'[k].st # "pending"

\* this step sends a request of updateSymbols
SymbolsRequestSent ==
    /\ Len(requests') = Len(requests) + 1
    /\ requests'[Len(requests')].caller = "updateSymbols"

\* C33: a step that renders the outcome of an invocation of updateSymbols
\* renders that of the most recent invocation; a response that arrives when
\* the version its invocation captured is no longer the counter leaves the
\* panel as it is; and the engine is only ever called for the invocation that
\* is the most recent one when its timer fires.
C33_OnlyLatestRendered ==
    [][ /\ (container'.text \in {"symbols", "unable"} /\ container' # container)
              => container'.call = Len(captured)
        /\ \A k \in 1..Len(requests) :
              (SymbolsRequestSettles(k) /\ captured[requests[k].q] # symbolsVersion)
                 => container' = container
        /\ SymbolsRequestSent => requests'[Len(requests')].q = Len(captured) ]_vars


\* ---------------------------------------------------------------- C34
\* clearSymbolsPanel was called after invocation i of updateSymbols started:
\* only a clear takes the counter below a captured version, or lets a later
\* invocation capture a version that is not greater
StartedBeforeClear(i) ==
    \/ symbolsVersion < captured[i]
    \/ \E j \in (i + 1)..Len(captured) : captured[j] <= captured[i]

\* C34: no step renders into the panel the outcome of an invocation of
\* updateSymbols that started before a call of clearSymbolsPanel, whether or
\* not updateSymbols was called again in between.
C34_ClearedRequestsNeverRender ==
    [][(container' # container /\ container'.text \in {"symbols", "unable"})
          => ~StartedBeforeClear(container'.call)]_vars


\* ---------------------------------------------------------------- C35
\* no call of initWasm is in progress
NoInitRunning == \A p \in Procs : ip[p].pc \in {"idle", "resolved", "rejected"}

\* C35: while a call of initWasm has rejected, no call is in progress and the
\* engine is not ready, a step that starts no call of initWasm leaves the
\* engine not ready: a late 'ready' of a failed attempt's worker does not
\* mark it ready.
C35_RejectedStaysNotReady ==
    [][( /\ NoInitRunning
         /\ \E p \in Procs : ip[p].pc = "rejected"
         /\ ~wasmReady
         /\ ip' = ip )
          => ~wasmReady']_vars


\* ---------------------------------------------------------------- C36
\* a call of initWasm has resolved on the 'ready' of the current worker,
\* which is still the engine in use
ResolvedOnCurrentWorker ==
    /\ worker # NoWorker
    /\ worker \in alive
    /\ wasmReady
    /\ \E p \in Procs : ip[p].pc = "resolved" /\ ip[p].w = worker

\* this step is a call of terminateWorker
TerminateWorkerStep == worker' = NoWorker /\ ip' = ip

\* C36: once a call of initWasm has resolved on the current worker, a step
\* other than terminateWorker leaves that worker alive and current and the
\* engine ready: no timeout or retry of an overlapping call tears it down.
C36_ReadyWorkerKept ==
    [][(ResolvedOnCurrentWorker /\ ~TerminateWorkerStep)
          => /\ worker' = worker
             /\ worker \in alive'
             /\ wasmReady']_vars


\* ---------------------------------------------------------------- C37
\* C37: whenever the engine is marked ready, the worker handle is not null
\* and no boot error is recorded; and a step that records a boot error or
\* sets the worker handle to null leaves the engine not ready.
C37_ReadyImpliesWorker ==
    [][ /\ wasmReady' => (worker' # NoWorker /\ wasmError' = Null)
        /\ ((wasmError' # Null /\ wasmError' # wasmError)
               \/ (worker # NoWorker /\ worker' = NoWorker))
              => ~wasmReady' ]_vars

\* the engine is ready on a retry, after an attempt of the same call failed
\* with a boot error that had been recorded
C37_Witness ==
    /\ wasmReady
    /\ worker \in alive
    /\ wasmError = Null
    /\ \E p \in Procs : /\ ip[p].pc = "resolved"
                        /\ ip[p].attempt > 0
                        /\ ip[p].lastError # Null

\* ------------------------------------------------------------- examples.js
\* lazyExampleUrls[name]
lazyExampleUrls == [name \in {"beancount-example"} |-> "/examples/beancount-example.beancount"]

\* `if (cached)`, `if (pending)`, `if (!url)`: undefined and the empty string
\* are falsy, an absent promise is 0
Truthy(value) == value \notin {Null, ""}

\* pendingFetches.get(name) as loadLazyExample reads it
PendingOf(name) == pendingFetches[name]

\* the part of the state examples.js does not touch
LazyFrame ==
    /\ UNCHANGED <<wasmVars, requests, workerVars, ip, mainVars, injected, timers,
                   timerSeq, queryInputVars, navLog, dropdownVars, marks, fetchRun,
                   symbolVars, colorRun, tooltipVars>>
    /\ callLog' = Null
    /\ event' = NoEvent

\* one call of loadLazyExample, up to its return: what it returned is the
\* cached text, the promise of a fetch (by its number), or a rejection
loadLazyExample(name) ==
    LET cached == lazyExampleCache[name]
        pending == PendingOf(name)
        n == Len(fetchPromises) + 1
    IN
    /\ Len(loads) < MaxLoads
    /\ IF Truthy(cached)
       THEN /\ loads' = Append(loads, [name |-> name, promise |-> 0, value |-> cached])
            /\ UNCHANGED <<pendingFetches, fetchPromises>>
       ELSE IF pending # 0
       THEN /\ loads' = Append(loads, [name |-> name, promise |-> pending, value |-> Null])
            /\ UNCHANGED <<pendingFetches, fetchPromises>>
       ELSE IF name \notin DOMAIN lazyExampleUrls
       THEN /\ loads' = Append(loads, [name |-> name, promise |-> 0,
                                       value |-> "Unknown lazy example"])
            /\ UNCHANGED <<pendingFetches, fetchPromises>>
       ELSE /\ fetchPromises' = Append(fetchPromises,
                    [name |-> name, st |-> "pending", value |-> Null])
            /\ pendingFetches' = [pendingFetches EXCEPT ![name] = n]
            /\ loads' = Append(loads, [name |-> name, promise |-> n, value |-> Null])
    /\ UNCHANGED lazyExampleCache
    /\ LazyFrame

\* what fetch(url) and res.text() come to: a body with res.ok, a status
\* that is not ok, or a rejection of either promise
ExampleTexts == {"", "2024-01-01 open Assets:Bank"}

ExampleResponses ==
    [ok : {TRUE}, text : ExampleTexts, error : {Null}]
        \cup [ok : {FALSE}, text : {Null}, error : {"Failed to fetch beancount-example"}]
        \cup [ok : {FALSE}, text : {Null}, error : {"TypeError: Failed to fetch"}]

\* the handlers of promise n run: the second then on a body, the catch
\* otherwise
ExampleFetchSettles(n, response) ==
    LET name == fetchPromises[n].name IN
    /\ fetchPromises[n].st = "pending"
    /\ IF response.ok
       THEN /\ lazyExampleCache' = [lazyExampleCache EXCEPT ![name] = response.text]
            /\ fetchPromises' = [fetchPromises EXCEPT
                    ![n] = [@ EXCEPT !.st = "fulfilled", !.value = response.text]]
       ELSE /\ UNCHANGED lazyExampleCache
            /\ fetchPromises' = [fetchPromises EXCEPT
                    ![n] = [@ EXCEPT !.st = "rejected", !.value = response.error]]
    /\ pendingFetches' = [pendingFetches EXCEPT ![name] = 0]
    /\ UNCHANGED loads
    /\ LazyFrame

NextExamples ==
    \/ \E name \in ExampleNames : loadLazyExample(name)
    \/ \E n \in DOMAIN fetchPromises, response \in ExampleResponses :
          ExampleFetchSettles(n, response)

SpecExamples == Init /\ [][NextExamples]_vars

\* the user edits and formats while validations run
FormatTexts == {1, 2}

NextFormat ==
    \/ InitWasm("A", 0)
    \/ \E w \in DOMAIN wk : WorkerBootOk(w)
    \/ \E w \in DOMAIN wk : WorkerOnMessage(w)
    \/ \E w \in DOMAIN wk : FormatResponse(w)
    \/ runFormat
    \/ \E c \in FormatTexts \ {content} : timerSeq < MaxFormatEdits /\ onEditorChange(c)
    \/ ValidationTimerFires

SpecFormat == Init /\ [][NextFormat]_vars

\* a request of runFormat is settled in this step
FormatSettles(k) ==
    /\ k \in DOMAIN requests
    /\ requests[k].caller = "runFormat"
    /\ requests[k].st = "pending"
    /\ requests'[k].st = "resolved"

\* C38: a format response changes the editor content only when the content
\* is still the one the format was computed from, and a format result that
\* carries errors leaves the content unchanged
C38_FormatAppliesToItsSource ==
    [][\A k \in DOMAIN requests :
          FormatSettles(k) =>
              /\ content' # content => content = requests[k].src
              /\ requests'[k].value.formatted = NoId => content' = content]_vars

\* no step that settles a format request with errors changes the editor
\* content
FormatErrorsKeepContent ==
    [][\A k \in DOMAIN requests :
          FormatSettles(k) /\ requests'[k].value.formatted = NoId
              => content' = content]_vars

\* the worker script under fair scheduling: an engine load that was started
\* settles, and a message event that was delivered is handled
WorkerRuns(w) ==
    \/ WorkerBootOk(w)
    \/ WorkerBootFail(w)
    \/ WorkerInitAgain(w)
    \/ WorkerOnMessage(w)

SpecWorkerFair ==
    /\ SpecApi
    /\ \A w \in 1..MaxWorkers : WF_vars(WorkerRuns(w))

\* the messages on their way to a worker, or held by its handler, that carry
\* the id of request k
Unanswered(k) == {i \in DOMAIN toWorker : toWorker[i].id = requests[k].id}

AtLiveWorker(k) == k \in DOMAIN requests /\ requests[k].w \in alive

\* a request of a live worker is pending with exactly one message to answer,
\* or was answered once and has none
AnsweredOnce ==
    \A k \in DOMAIN requests :
        AtLiveWorker(k) =>
            \/ requests[k].st = "pending" /\ Cardinality(Unanswered(k)) = 1
            \/ /\ requests[k].st \in {"resolved", "rejected"}
               /\ requests[k].settles = 1
               /\ Unanswered(k) = {}

\* C39: every request other than 'init' that a live worker received is
\* answered by exactly one message with its id, a result or an error, so
\* every pending request of a worker that is not terminated is eventually
\* settled
C39_EveryRequestAnswered ==
    /\ []AnsweredOnce
    /\ \A k \in 1..MaxMsgs :
          (AtLiveWorker(k) /\ requests[k].st = "pending")
              ~> (~AtLiveWorker(k) \/ requests[k].st \in {"resolved", "rejected"})

\* a request that reached a worker whose engine never loaded was answered
\* with an error that carries its id
C39_Witness ==
    /\ \E k \in DOMAIN requests :
          /\ AtLiveWorker(k)
          /\ requests[k].st = "rejected"
          /\ requests[k].value.error = "TypeError"

\* the fetches for `name` that have not settled
InFlight(name) ==
    {n \in DOMAIN fetchPromises :
        fetchPromises[n].name = name /\ fetchPromises[n].st = "pending"}

Succeeded(name) ==
    \E n \in DOMAIN fetchPromises :
        fetchPromises[n].name = name /\ fetchPromises[n].st = "fulfilled"

\* at most one fetch per name is in flight, it is the one pendingFetches
\* holds, and every caller that waits for the name holds its promise
OneSharedFetch ==
    /\ \A name \in ExampleNames :
          /\ Cardinality(InFlight(name)) <= 1
          /\ InFlight(name) = {pendingFetches[name]} \ {0}
    /\ \A i \in DOMAIN loads :
          loads[i].promise # 0 =>
              /\ fetchPromises[loads[i].promise].name = loads[i].name
              /\ fetchPromises[loads[i].promise].st = "pending"
                    => pendingFetches[loads[i].name] = loads[i].promise

\* this step is a call of loadLazyExample(name)
LoadStep(name) ==
    /\ Len(loads') = Len(loads) + 1
    /\ loads'[Len(loads')].name = name

\* a call after a success returns the cached text and issues no fetch
CachedAfterSuccess ==
    \A name \in ExampleNames :
        LoadStep(name) /\ Succeeded(name) =>
            /\ fetchPromises' = fetchPromises
            /\ loads'[Len(loads')].promise = 0
            /\ loads'[Len(loads')].value = lazyExampleCache[name]

\* a success stores the text; a failure removes the in-flight entry and
\* caches nothing, and the next call for the name issues a new fetch
SettledEntryRemoved ==
    \A n \in DOMAIN fetchPromises :
        fetchPromises[n].st = "pending" /\ fetchPromises'[n].st # "pending" =>
            /\ pendingFetches'[fetchPromises[n].name] = 0
            /\ IF fetchPromises'[n].st = "fulfilled"
               THEN lazyExampleCache'[fetchPromises[n].name] = fetchPromises'[n].value
               ELSE lazyExampleCache' = lazyExampleCache

FetchAgainAfterFailure ==
    \A name \in DOMAIN lazyExampleUrls :
        LoadStep(name) /\ ~Succeeded(name) /\ InFlight(name) = {} =>
            /\ Len(fetchPromises') = Len(fetchPromises) + 1
            /\ InFlight(name)' = {Len(fetchPromises')}

\* C40: at most one fetch per example name is in flight and the concurrent
\* callers for the name share it; after a success the text is cached and
\* later calls issue no fetch; after a failure the in-flight entry is removed,
\* nothing is cached, and a later call issues a new fetch
C40_OneFetchSharedAndCached ==
    /\ []OneSharedFetch
    /\ [][CachedAfterSuccess /\ SettledEntryRemoved /\ FetchAgainAfterFailure]_vars

====
